---- MODULE Spec2Model ----
(***************************************************************************)
(* bigrays: the ordered task runner (bigrays/run.py), the resource manager *)
(* and resource classes (bigrays/resources.py) and the task output store   *)
(* (bigrays/tasks.py), as one state machine of a single Python process.    *)
(***************************************************************************)
EXTENDS Integers, Sequences, FiniteSets, TLC

(* ------------------------------ bounds --------------------------------- *)
\* tasks taken from the queue over the life of the process, all runs together
MaxTasks == 3
\* calls of BigRays.run in the process
MaxRuns == 2
\* Placeholder objects created in the process
MaxCells == 4
\* successful opens made by direct calls of Resource.open
MaxOpens == 3
\* class statements followed, the one of BaseTask included
MaxTypes == 4

(* ------------------------------ values --------------------------------- *)
\* Python's None
None == "None"
\* ResourceManager._none, the sentinel "no resource has been opened"
NoneSentinel == "_none"
\* tasks.UNSET, the value of a placeholder that was never set
UNSET == "UNSET"
\* a key that is in neither dictionary of the TaskOutput store
Absent == "absent"

\* BaseResource subclasses (the classes Resource1, Resource2 of the tests)
Resources == {"R1", "R2"}
\* the object ResourceManager is constructed with in BigRays.run
DefaultConfig == "BigRaysConfig"
\* a configuration object a task type carries in resource_config
TaskConfig == "cfgA"
\* attribute names of the configuration a resource may require
ConfigKeys == {"foo", "baz"}

required_configs(r) == IF r = "R1" THEN {"foo"} ELSE {"baz"}

\* the task types handed to BigRays.run: user subclasses of BaseTask
TaskNames == {"A", "B", "C", "D"}

\* the task types wrap_task is given as base_task
WrapBases == {"A", "D"}

\* the class the n-th call of a wrapper creates below the base type
WrapName(base, n) == base \o "#" \o ToString(n)
WrapNames == {WrapName(base, n) : base \in WrapBases, n \in 1..MaxRuns}

\* the task types there can be
TaskTypes == TaskNames \cup WrapNames

\* the user task type whose attributes the task type t has: itself, or the
\* base type it was created below by a wrapper
Base(t) ==
    IF t \in TaskNames THEN t
    ELSE CHOOSE base \in WrapBases : \E n \in 1..MaxRuns : t = WrapName(base, n)

required_resource(t) ==
    CASE Base(t) = "A" -> "R1"
      [] Base(t) = "B" -> "R1"
      [] Base(t) = "C" -> "R2"
      [] OTHER   -> None

resource_config(t) == IF Base(t) = "B" THEN TaskConfig ELSE None

run_with_exceptions(t) == Base(t) \in {"B", "D"}

\* the task types whose run() reads the output of other task types
reads_outputs(t) == Base(t) = "D"

\* results of the external calls
OpenOutcomes == {"raise", "handle", "none"}
CloseOutcomes == {"raise", "False", "True"}
BodyOutcomes == {"raise", "return"}

VARIABLES
    pc,                 \* where the process is
    runs,               \* calls of BigRays.run so far
    taken,              \* tasks handed to the runs so far, all runs together
    TASK_REGISTER,      \* tasks.TASK_REGISTER
    BigRaysConfig,      \* keys of config.BigRaysConfig whose value is not None
    tasks,              \* the tasks of the run not taken yet (the deque of _run_tasks)
    failed_tasks,       \* the list failed_tasks of _run_tasks
    stack,              \* harness frames waiting in their finally block
    task,               \* the local `task` of the active harness frame
    exc,                \* the exception leaving the callee (None: it returned)
    errs,               \* the exception objects raised so far in this run
    rm,                 \* the ResourceManager instance of the run
    handle,             \* BaseResource._resource of each resource class
    opens,              \* successful _open calls so far (numbers the handles)
    values,             \* TaskOutput._values
    placeholders,       \* TaskOutput._placeholders: the Placeholder object of each key
    cells,              \* the Placeholder objects created so far: _value of each
    held,               \* the placeholders user code obtained and keeps: <<key, object>>
    runList,            \* history: the task list of the current run
    startValues,        \* history: TaskOutput._values when the run started
    args,               \* history: the tasks the last call of BigRays.run was given
    message,            \* the keys the ConfigurationError of the last call lists
    log,                \* history: what the run did, in order
    outcome,            \* how the last call of BigRays.run ended
    called,             \* the last call made on a resource class directly
    classes,            \* the classes the class statements followed created
    defined_base_task,  \* Register._defined_base_task
    definition,         \* how the last class statement followed ended
    wrapped,            \* the task type the wrapper call under way created
    returned,           \* how the last call of a wrapper ended
    outer,              \* the run whose task body called the wrapper, while it waits
    taskConfig          \* keys of the tasks' own resource_config whose value is not None

vars == <<pc, runs, taken, TASK_REGISTER, BigRaysConfig, tasks, failed_tasks,
          stack, task, exc, errs, rm, handle, opens, values, placeholders,
          cells, held,
          runList, startValues, args, message, log, outcome, called,
          classes, defined_base_task, definition, wrapped, returned,
          outer, taskConfig>>

\* what the calls made outside BigRays.run change, and the configuration
\* object of the tasks, which nothing changes
registerVars == <<classes, defined_base_task, definition>>
wrapperVars == <<wrapped, returned, outer>>
apiVars == <<called, registerVars, wrapperVars, taskConfig>>

procVars == <<runs, TASK_REGISTER, BigRaysConfig, apiVars>>
harnessVars == <<tasks, failed_tasks, stack, task, exc, errs>>
resourceVars == <<rm, handle, opens>>
outputVars == <<values, placeholders, cells, held>>
historyVars == <<runList, startValues, args, message>>

(* --------------------------- small helpers ----------------------------- *)
RECURSIVE SeqsUpTo(_, _)
SeqsUpTo(S, n) ==
    IF n = 0 THEN {<<>>}
    ELSE LET shorter == SeqsUpTo(S, n - 1)
         IN shorter \cup {Append(s, x) : s \in {q \in shorter : Len(q) = n - 1}, x \in S}

Range(s) == {s[i] : i \in 1..Len(s)}

(* --------------------------- resources.py ------------------------------ *)
\* ResourceManager._init_state
init_state == [resource |-> NoneSentinel, config |-> NoneSentinel,
               opening_resource |-> FALSE]

\* what _open returns the n-th time it succeeds
NewHandle(n) == "h" \o ToString(n)

\* BaseResource.open registering a handle before _open is known to return
BaseResource_open_registering_first(h, r, config, out, n) ==
    LET new == IF out = "none" THEN None ELSE NewHandle(n + 1)
    IN IF out = "raise"
       THEN [handle |-> [h EXCEPT ![r] = NewHandle(n + 1)],
             raised |-> <<"OpenError", "ResourceError">>, opens |-> n,
             log |-> <<<<"open", r, config>>, <<"open_failed", r, config>>>>]
       ELSE [handle |-> [h EXCEPT ![r] = new], raised |-> <<>>, opens |-> n + 1,
             log |-> <<<<"open", r, config>>, <<"opened", r, new>>>>]

\* BaseResource.open: _open raises -> ResourceError raised while the error of
\* _open is handled; else the returned handle is stored in cls._resource.
\* `raised` lists the exception types raised, innermost first (<<>>: none).
BaseResource_open(h, r, config, out, n) ==
    IF out = "raise"
    THEN [handle |-> h, raised |-> <<"OpenError", "ResourceError">>, opens |-> n,
          log |-> <<<<"open", r, config>>, <<"open_failed", r, config>>>>]
    ELSE LET new == IF out = "none" THEN None ELSE NewHandle(n + 1)
         IN [handle |-> [h EXCEPT ![r] = new], raised |-> <<>>, opens |-> n + 1,
             log |-> <<<<"open", r, config>>, <<"opened", r, new>>>>]

\* BaseResource.close without the test of cls._resource
BaseResource_close_unguarded(h, r, out) ==
    IF out = "raise"
    THEN [handle |-> h, raised |-> <<"CloseError">>, ignore |-> FALSE,
          log |-> <<<<"close", r, h[r]>>, <<"close_failed", r, h[r]>>>>]
    ELSE [handle |-> [h EXCEPT ![r] = None], raised |-> <<>>,
          ignore |-> (out = "True"),
          log |-> <<<<"close", r, h[r]>>, <<"closed", r, h[r]>>>>]

\* BaseResource.close: ResourceError when nothing is stored, else _close runs
\* and, when it returns, cls._resource is reset
BaseResource_close(h, r, out) ==
    IF h[r] = None
    THEN [handle |-> h, raised |-> <<"ResourceError">>, ignore |-> FALSE,
          log |-> <<<<"close", r, None>>, <<"close_refused", r, None>>>>]
    ELSE IF out = "raise"
    THEN [handle |-> h, raised |-> <<"CloseError">>, ignore |-> FALSE,
          log |-> <<<<"close", r, h[r]>>, <<"close_failed", r, h[r]>>>>]
    ELSE [handle |-> [h EXCEPT ![r] = None], raised |-> <<>>,
          ignore |-> (out = "True"),
          log |-> <<<<"close", r, h[r]>>, <<"closed", r, h[r]>>>>]

\* BaseResource.resource: RuntimeError when nothing is stored, else what is stored
BaseResource_resource(h, r) ==
    IF h[r] = None
    THEN [raised |-> <<"RuntimeError">>, value |-> None]
    ELSE [raised |-> <<>>, value |-> h[r]]

cleanup_without_close(m, h, out) ==
    IF m.resource # NoneSentinel /\ m.config # NoneSentinel /\ m.resource # None
    THEN [rm |-> init_state, handle |-> h, raised |-> <<>>,
          ignore |-> FALSE, log |-> <<>>]
    ELSE [rm |-> m, handle |-> h, raised |-> <<>>, ignore |-> FALSE, log |-> <<>>]

cleanup_closing_mid_open(m, h, out) ==
    IF m.resource # NoneSentinel /\ m.config # NoneSentinel /\ m.resource # None
    THEN LET c == BaseResource_close(h, m.resource, out)
         IN IF c.raised # <<>>
            THEN [rm |-> m, handle |-> c.handle, raised |-> c.raised,
                  ignore |-> FALSE, log |-> c.log]
            ELSE [rm |-> init_state, handle |-> c.handle, raised |-> <<>>,
                  ignore |-> c.ignore, log |-> c.log]
    ELSE [rm |-> m, handle |-> h, raised |-> <<>>, ignore |-> FALSE, log |-> <<>>]

\* _cleanup forgetting the resource whose close raised
cleanup_resetting_on_failure(m, h, out) ==
    IF m.resource # NoneSentinel /\ m.config # NoneSentinel /\ m.resource # None
    THEN IF ~m.opening_resource
         THEN LET c == BaseResource_close(h, m.resource, out)
              IN [rm |-> init_state, handle |-> c.handle, raised |-> c.raised,
                  ignore |-> IF c.raised # <<>> THEN FALSE ELSE c.ignore,
                  log |-> c.log]
         ELSE [rm |-> init_state, handle |-> h, raised |-> <<>>,
               ignore |-> FALSE, log |-> <<>>]
    ELSE [rm |-> m, handle |-> h, raised |-> <<>>, ignore |-> FALSE, log |-> <<>>]

\* ResourceManager._cleanup
cleanup(m, h, out) ==
    IF m.resource # NoneSentinel /\ m.config # NoneSentinel /\ m.resource # None
    THEN IF ~m.opening_resource
         THEN LET c == BaseResource_close(h, m.resource, out)
              IN IF c.raised # <<>>
                 THEN [rm |-> m, handle |-> c.handle, raised |-> c.raised,
                       ignore |-> FALSE, log |-> c.log]
                 ELSE [rm |-> init_state, handle |-> c.handle, raised |-> <<>>,
                       ignore |-> c.ignore, log |-> c.log]
         ELSE [rm |-> init_state, handle |-> h, raised |-> <<>>,
               ignore |-> FALSE, log |-> <<>>]
    ELSE [rm |-> m, handle |-> h, raised |-> <<>>, ignore |-> FALSE, log |-> <<>>]

\* _open_resource clearing the flag whether or not the open raised
open_resource_inner_clearing_flag(m, h, resource, config, out, n) ==
    LET o == BaseResource_open(h, resource, config, out, n)
    IN [rm |-> [m EXCEPT !.opening_resource = FALSE],
        handle |-> o.handle, raised |-> o.raised, opens |-> o.opens, log |-> o.log]

\* ResourceManager._open_resource
open_resource_inner(m, h, resource, config, out, n) ==
    LET o == BaseResource_open(h, resource, config, out, n)
    IN [rm |-> [m EXCEPT !.opening_resource = (o.raised # <<>>)],
        handle |-> o.handle, raised |-> o.raised, opens |-> o.opens, log |-> o.log]

open_resource_always_reopening(m, h, resource, config, closeOut, openOut, n) ==
    LET cfg == IF config = None THEN DefaultConfig ELSE config
        c == cleanup(m, h, closeOut)
    IN IF c.raised # <<>>
       THEN [rm |-> c.rm, handle |-> c.handle, raised |-> c.raised,
             opens |-> n, log |-> c.log]
       ELSE IF resource # None
       THEN LET o == open_resource_inner(
                         [c.rm EXCEPT !.resource = resource, !.config = cfg],
                         c.handle, resource, cfg, openOut, n)
            IN [rm |-> o.rm, handle |-> o.handle, raised |-> o.raised,
                opens |-> o.opens, log |-> c.log \o o.log]
       ELSE [rm |-> c.rm, handle |-> c.handle, raised |-> <<>>,
             opens |-> n, log |-> c.log]

open_resource_without_cleanup(m, h, resource, config, closeOut, openOut, n) ==
    LET cfg == IF config = None THEN DefaultConfig ELSE config
    IN IF resource # m.resource \/ cfg # m.config
       THEN IF resource # None
            THEN LET o == open_resource_inner(
                              [m EXCEPT !.resource = resource, !.config = cfg],
                              h, resource, cfg, openOut, n)
                 IN [rm |-> o.rm, handle |-> o.handle, raised |-> o.raised,
                     opens |-> o.opens, log |-> o.log]
            ELSE [rm |-> init_state, handle |-> h, raised |-> <<>>,
                  opens |-> n, log |-> <<>>]
       ELSE [rm |-> m, handle |-> h, raised |-> <<>>, opens |-> n, log |-> <<>>]

\* open_resource letting the flag of the switch close swallow the error of
\* the open that follows
open_resource_suppressing(m, h, resource, config, closeOut, openOut, n) ==
    LET cfg == IF config = None THEN DefaultConfig ELSE config
    IN IF resource # m.resource \/ cfg # m.config
       THEN LET c == cleanup(m, h, closeOut)
            IN IF c.raised # <<>>
               THEN [rm |-> c.rm, handle |-> c.handle, raised |-> c.raised,
                     opens |-> n, log |-> c.log]
               ELSE IF resource # None
               THEN LET o == open_resource_inner(
                                 [c.rm EXCEPT !.resource = resource, !.config = cfg],
                                 c.handle, resource, cfg, openOut, n)
                    IN [rm |-> o.rm, handle |-> o.handle,
                        raised |-> IF c.ignore THEN <<>> ELSE o.raised,
                        opens |-> o.opens, log |-> c.log \o o.log]
               ELSE [rm |-> c.rm, handle |-> c.handle, raised |-> <<>>,
                     opens |-> n, log |-> c.log]
       ELSE [rm |-> m, handle |-> h, raised |-> <<>>, opens |-> n, log |-> <<>>]

\* ResourceManager.open_resource
open_resource(m, h, resource, config, closeOut, openOut, n) ==
    LET cfg == IF config = None THEN DefaultConfig ELSE config
    IN IF resource # m.resource \/ cfg # m.config
       THEN LET c == cleanup(m, h, closeOut)
            IN IF c.raised # <<>>
               THEN [rm |-> c.rm, handle |-> c.handle, raised |-> c.raised,
                     opens |-> n, log |-> c.log]
               ELSE IF resource # None
               THEN LET o == open_resource_inner(
                                 [c.rm EXCEPT !.resource = resource, !.config = cfg],
                                 c.handle, resource, cfg, openOut, n)
                    IN [rm |-> o.rm, handle |-> o.handle, raised |-> o.raised,
                        opens |-> o.opens, log |-> c.log \o o.log]
               ELSE [rm |-> c.rm, handle |-> c.handle, raised |-> <<>>,
                     opens |-> n, log |-> c.log]
       ELSE [rm |-> m, handle |-> h, raised |-> <<>>, opens |-> n, log |-> <<>>]

(* ----------------------------- tasks.py -------------------------------- *)
\* no Placeholder object: the key is not in TaskOutput._placeholders
NoPlaceholder == 0

Placeholder_value_falsy(heap, ref) ==
    [raised |-> heap[ref] \in {UNSET, None}, value |-> heap[ref]]

\* Placeholder.value (the getter): AttributeError while _value is UNSET
Placeholder_value(heap, ref) ==
    [raised |-> heap[ref] = UNSET, value |-> heap[ref]]

TaskOutput_get_fresh_placeholder(vals, phs, heap, key) ==
    IF vals[key] = Absent
    THEN [placeholders |-> [phs EXCEPT ![key] = Len(heap) + 1],
          cells |-> Append(heap, UNSET),
          kind |-> "placeholder", ref |-> Len(heap) + 1, value |-> UNSET]
    ELSE [placeholders |-> phs, cells |-> heap,
          kind |-> "value", ref |-> NoPlaceholder, value |-> vals[key]]

\* TaskOutput.__get__: the stored value, else the Placeholder object of the
\* key, which is created when the key has none; `value` is the stored value
\* or the _value of the placeholder, `ref` the placeholder object returned
TaskOutput_get(vals, phs, heap, key) ==
    IF vals[key] = Absent
    THEN IF phs[key] = NoPlaceholder
         THEN [placeholders |-> [phs EXCEPT ![key] = Len(heap) + 1],
               cells |-> Append(heap, UNSET),
               kind |-> "placeholder", ref |-> Len(heap) + 1, value |-> UNSET]
         ELSE [placeholders |-> phs, cells |-> heap,
               kind |-> "placeholder", ref |-> phs[key], value |-> heap[phs[key]]]
    ELSE [placeholders |-> phs, cells |-> heap,
          kind |-> "value", ref |-> NoPlaceholder, value |-> vals[key]]

TaskOutput_set_placeholder_only(vals, phs, heap, key, value) ==
    [placeholders |-> phs,
     cells |-> IF phs[key] # NoPlaceholder THEN [heap EXCEPT ![phs[key]] = value] ELSE heap,
     values |-> vals]

\* TaskOutput.__set__: resolves the placeholder of the key, stores the value
TaskOutput_set(vals, phs, heap, key, value) ==
    [placeholders |-> phs,
     cells |-> IF phs[key] # NoPlaceholder THEN [heap EXCEPT ![phs[key]] = value] ELSE heap,
     values |-> [vals EXCEPT ![key] = value]]

(* --------------------- tasks.py: the Register metaclass ---------------- *)
\* the marker of an attribute a subclass has to define
REQUIRED_ATTRIBUTE == "REQUIRED_ATTRIBUTE"

\* the attributes followed and what a class body may bind them to
\* (Absent: the body does not mention the attribute)
AttrNames == {"x", "y"}
AttrValues == {Absent, REQUIRED_ATTRIBUTE, None, "1"}
Namespaces == [AttrNames -> AttrValues]

\* the class object the n-th successful class statement creates
TypeId(n) == "T" \o ToString(n)

\* the class of the table with this identity
ClassOf(table, id) == table[CHOOSE i \in 1..Len(table) : table[i].id = id]

\* vars(base) of each direct base
BaseVars(table, bases) == {ClassOf(table, b).ns : b \in bases}

\* hasattr(cls, 'is_task') for a class just created: the attribute is
\* inherited from a base that has it
hasattr_is_task(table, bases) == \E b \in bases : ClassOf(table, b).is_task

\* no class statement was followed
NoDefinition == [name |-> None, bases |-> {}, ns |-> [a \in AttrNames |-> Absent],
                 raised |-> None, missing |-> {}]

\* _check_interface taking None for the marker
check_interface_none_unset(baseVars, namespace) ==
    LET required_attributes ==
            {attr \in AttrNames : \E v \in baseVars : v[attr] = REQUIRED_ATTRIBUTE}
    IN {attr \in required_attributes :
            namespace[attr] \in {Absent, REQUIRED_ATTRIBUTE, None}}

\* Register._check_interface: the attributes the direct bases bind to the
\* marker in their own body and the namespace does not bind to something else
check_interface(baseVars, namespace) ==
    LET required_attributes ==
            {attr \in AttrNames : \E v \in baseVars : v[attr] = REQUIRED_ATTRIBUTE}
    IN {attr \in required_attributes :
            namespace[attr] \in {Absent, REQUIRED_ATTRIBUTE}}

\* Register.__new__ registering the classes that get is_task too
Register_new_registering_bases(flag, register, name, baseVars, hasIsTask, namespace) ==
    IF ~flag
    THEN [defined_base_task |-> TRUE, is_task |-> hasIsTask,
          register |-> register, raised |-> None, missing |-> {}]
    ELSE IF ~hasIsTask
    THEN [defined_base_task |-> flag, is_task |-> TRUE,
          register |-> Append(register, name), raised |-> None, missing |-> {}]
    ELSE LET missing == check_interface(baseVars, namespace)
         IN IF missing # {}
            THEN [defined_base_task |-> flag, is_task |-> TRUE,
                  register |-> register, raised |-> "TaskInterfaceError",
                  missing |-> missing]
            ELSE [defined_base_task |-> flag, is_task |-> TRUE,
                  register |-> Append(register, name), raised |-> None,
                  missing |-> {}]

\* Register.__new__ registering the class before it is checked
Register_new_registering_first(flag, register, name, baseVars, hasIsTask, namespace) ==
    IF ~flag
    THEN [defined_base_task |-> TRUE, is_task |-> hasIsTask,
          register |-> register, raised |-> None, missing |-> {}]
    ELSE IF ~hasIsTask
    THEN [defined_base_task |-> flag, is_task |-> TRUE,
          register |-> register, raised |-> None, missing |-> {}]
    ELSE LET missing == check_interface(baseVars, namespace)
         IN [defined_base_task |-> flag, is_task |-> TRUE,
             register |-> Append(register, name),
             raised |-> IF missing # {} THEN "TaskInterfaceError" ELSE None,
             missing |-> missing]

\* Register.__new__ appending the class twice
Register_new_registering_twice(flag, register, name, baseVars, hasIsTask, namespace) ==
    IF ~flag
    THEN [defined_base_task |-> TRUE, is_task |-> hasIsTask,
          register |-> register, raised |-> None, missing |-> {}]
    ELSE IF ~hasIsTask
    THEN [defined_base_task |-> flag, is_task |-> TRUE,
          register |-> register, raised |-> None, missing |-> {}]
    ELSE LET missing == check_interface(baseVars, namespace)
         IN IF missing # {}
            THEN [defined_base_task |-> flag, is_task |-> TRUE,
                  register |-> register, raised |-> "TaskInterfaceError",
                  missing |-> missing]
            ELSE [defined_base_task |-> flag, is_task |-> TRUE,
                  register |-> Append(Append(register, name), name), raised |-> None,
                  missing |-> {}]

\* Register.__new__: the class object is created; the first class is BaseTask,
\* a class without is_task gets it, any other class is checked and registered
Register_new(flag, register, name, baseVars, hasIsTask, namespace) ==
    IF ~flag
    THEN [defined_base_task |-> TRUE, is_task |-> hasIsTask,
          register |-> register, raised |-> None, missing |-> {}]
    ELSE IF ~hasIsTask
    THEN [defined_base_task |-> flag, is_task |-> TRUE,
          register |-> register, raised |-> None, missing |-> {}]
    ELSE LET missing == check_interface(baseVars, namespace)
         IN IF missing # {}
            THEN [defined_base_task |-> flag, is_task |-> TRUE,
                  register |-> register, raised |-> "TaskInterfaceError",
                  missing |-> missing]
            ELSE [defined_base_task |-> flag, is_task |-> TRUE,
                  register |-> Append(register, name), raised |-> None,
                  missing |-> {}]

(* ------------------------------ run.py --------------------------------- *)
\* no exception (the value of exc, of a frame's pending exception, of __context__)
NoExc == 0

define_task_list_with_register(given, register) == given \o register

\* BigRays._define_task_list (run passes None when it is given no task)
define_task_list(given, register) == IF given # <<>> THEN given ELSE register

\* BigRays._define_required_resources
define_required_resources(list) == {required_resource(t) : t \in Range(list)} \ {None}

missing_configs_first_only(config, resources) ==
    LET all == {c \in UNION {required_configs(r) : r \in resources} : c \notin config}
    IN IF all = {} THEN {} ELSE {CHOOSE c \in all : TRUE}

\* BigRays._check_configs: the required keys that are missing or None, which
\* the message of the ConfigurationError lists
missing_configs(config, resources) ==
    {c \in UNION {required_configs(r) : r \in resources} : c \notin config}

RECURSIVE Handled_outermost(_)
Handled_outermost(st) ==
    IF st = <<>> THEN NoExc
    ELSE IF st[1] # NoExc THEN st[1]
    ELSE Handled_outermost(Tail(st))

\* the exception being handled where a new one is raised: harness frames sit in
\* their finally block, the innermost one holding an exception gives it
RECURSIVE Handled(_)
Handled(st) ==
    IF st = <<>> THEN NoExc
    ELSE IF st[Len(st)] # NoExc THEN st[Len(st)]
    ELSE Handled(SubSeq(st, 1, Len(st) - 1))

\* the exception objects of `types`, raised one while the other is handled,
\* the first while `ctx` is handled: each gets __context__ at raise time
RECURSIVE Raise(_, _, _, _)
Raise(es, types, ctx, pos) ==
    IF types = <<>> THEN es
    ELSE Raise(Append(es, [type |-> Head(types), context |-> ctx,
                           cause |-> NoExc, pos |-> pos]),
               Tail(types), Len(es) + 1, pos)

\* position in the run's list of the task of the active frame
Position == Len(runList) - Len(tasks)

\* history: the events <<kind, subject, extra>> of a resource call, each
\* recorded with the position k of the task they are made for
Stamp(l, k) == [i \in 1..Len(l) |-> <<l[i][1], k, l[i][2], l[i][3]>>]

\* history: an event of the runner for the task t at position k
Ev(kind, k, t) == <<kind, k, t, None>>

pop_right(q) == [item |-> q[Len(q)], rest |-> SubSeq(q, 1, Len(q) - 1)]

\* collections.deque.popleft: the element taken and the queue left
popleft(q) == [item |-> Head(q), rest |-> Tail(q)]

skip_task_ignoring_flag(failed, t) == failed # <<>>

\* the skip test of the harness: a failure was recorded and the task does
\* not run with exceptions
skip_task(failed, t) == failed # <<>> /\ ~run_with_exceptions(t)

\* what run() of a task returns in this call of BigRays.run
Result == "v" \o ToString(runs + 1)

\* the task types whose output the body of t may read (a task type that
\* reads outputs, like Task3 of the tests): those of the list of this run
\* and those that have an output already
Readable(t) ==
    IF reads_outputs(t)
    THEN Range(runList) \cup {u \in TaskTypes : values[u] # Absent}
    ELSE {}

\* what Register.__new__ has left in TASK_REGISTER when BigRays.run is called:
\* nothing (no subclass of a public task was defined), or the task types
\* that are such subclasses, in the order of their definition
Registers == {<<>>, <<"A", "D">>}

\* what config.BigRaysConfig holds when BigRays.run is called: every key, every
\* key but one, or none of them
Configs == {ConfigKeys, ConfigKeys \ {"baz"}, {}}

\* what a run takes of the bound MaxTasks: its tasks, an empty run counts one
Cost(list) == IF list = <<>> THEN 1 ELSE Len(list)

\* no wrapper was called
NoReturn == [task |-> None, raised |-> None, kind |-> None, value |-> None,
             ref |-> NoPlaceholder]

\* no call was made on a resource class directly
NoCall == [op |-> None, resource |-> None, raised |-> <<>>, value |-> None,
           log |-> <<>>, before |-> None]

\* the state of the process but for the task classes: nothing ran yet
Loaded ==
    /\ pc = "idle"
    /\ runs = 0
    /\ taken = 0
    /\ definition = NoDefinition
    /\ BigRaysConfig \in Configs
    /\ tasks = <<>>
    /\ failed_tasks = <<>>
    /\ stack = <<>>
    /\ task = None
    /\ exc = NoExc
    /\ errs = <<>>
    /\ rm = init_state
    /\ handle = [r \in Resources |-> None]
    /\ opens = 0
    /\ values = [t \in TaskTypes |-> Absent]
    /\ placeholders = [t \in TaskTypes |-> NoPlaceholder]
    /\ cells = <<>>
    /\ held = {}
    /\ runList = <<>>
    /\ startValues = [t \in TaskTypes |-> Absent]
    /\ args = <<>>
    /\ message = {}
    /\ log = <<>>
    /\ outcome = None
    /\ called = NoCall
    /\ wrapped = None
    /\ returned = NoReturn
    /\ outer = <<>>

\* tasks.py was imported and the task classes of the program were defined
Init ==
    /\ Loaded
    /\ TASK_REGISTER \in Registers
    /\ classes = <<>>
    /\ defined_base_task = TRUE
    /\ taskConfig = ConfigKeys

Run_without_preflight(given) ==
    LET list == define_task_list(given, TASK_REGISTER)
        missing == {}
    IN /\ pc = "idle"
       /\ runs < MaxRuns
       /\ taken + Cost(list) <= MaxTasks
       /\ runList' = list
       /\ startValues' = values
       /\ args' = given
       /\ message' = missing
       /\ log' = <<>>
       /\ errs' = <<>>
       /\ exc' = NoExc
       /\ stack' = <<>>
       /\ failed_tasks' = <<>>
       /\ task' = None
       /\ tasks' = list
       /\ IF missing # {}
          THEN /\ pc' = "idle"
               /\ runs' = runs + 1
               /\ outcome' = "ConfigurationError"
               /\ UNCHANGED <<taken, rm>>
          ELSE /\ pc' = "loop"
               /\ outcome' = None
               /\ taken' = taken + Cost(list)
               /\ rm' = init_state
               /\ UNCHANGED runs
       /\ UNCHANGED <<TASK_REGISTER, BigRaysConfig, apiVars, handle, opens, outputVars>>

\* the keys the configuration object cfg holds with a value that is not None
config_keys(cfg) == IF cfg = DefaultConfig THEN BigRaysConfig ELSE taskConfig

\* the pre-flight check looking, for each task, in the configuration its
\* resource will be opened with
preflight_consulting_tasks(list) ==
    {c \in ConfigKeys :
        \E t \in Range(list) :
            /\ required_resource(t) # None
            /\ c \in required_configs(required_resource(t))
            /\ c \notin config_keys(IF resource_config(t) = None THEN DefaultConfig
                                     ELSE resource_config(t))}

\* BigRays.run, the pre-flight check: _check_configs is given BigRaysConfig
\* and the resources the tasks require
preflight(list) == missing_configs(BigRaysConfig, define_required_resources(list))

\* BigRays.run up to the call of the harness: the task list, the pre-flight
\* check, the ResourceManager scope entered, _run_tasks started
BigRays_run(given) ==
    LET list == define_task_list(given, TASK_REGISTER)
        missing == preflight(list)
    IN /\ runs < MaxRuns
       /\ taken + Cost(list) <= MaxTasks
       /\ runList' = list
       /\ startValues' = values
       /\ args' = given
       /\ message' = missing
       /\ log' = <<>>
       /\ errs' = <<>>
       /\ exc' = NoExc
       /\ stack' = <<>>
       /\ failed_tasks' = <<>>
       /\ task' = None
       /\ tasks' = list
       /\ IF missing # {}
          THEN /\ pc' = "idle"
               /\ runs' = runs + 1
               /\ outcome' = "ConfigurationError"
               /\ UNCHANGED <<taken, rm>>
          ELSE /\ pc' = "loop"
               /\ outcome' = None
               /\ taken' = taken + Cost(list)
               /\ rm' = init_state
               /\ UNCHANGED runs
       /\ UNCHANGED <<TASK_REGISTER, BigRaysConfig, apiVars, handle, opens, outputVars>>

\* the program calls BigRays.run
Run(given) ==
    /\ pc = "idle"
    /\ BigRays_run(given)

\* `while tasks:` is false: the harness frame returns
HarnessReturn ==
    /\ pc = "loop"
    /\ tasks = <<>>
    /\ pc' = "unwind"
    /\ exc' = NoExc
    /\ UNCHANGED <<procVars, taken, tasks, failed_tasks, stack, task, errs,
                   resourceVars, outputVars, historyVars, log, outcome>>

\* popleft, then the skip test: a failure was recorded and the task does not
\* run with exceptions -> continue, whose finally block calls the harness again
HarnessSkip ==
    /\ pc = "loop"
    /\ tasks # <<>>
    /\ skip_task(failed_tasks, popleft(tasks).item)
    /\ task' = popleft(tasks).item
    /\ tasks' = popleft(tasks).rest
    /\ stack' = Append(stack, NoExc)
    /\ log' = log \o <<Ev("pop", Position + 1, popleft(tasks).item),
                       Ev("skip", Position + 1, popleft(tasks).item)>>
    /\ UNCHANGED <<pc, procVars, taken, failed_tasks, exc, errs, resourceVars,
                   outputVars, historyVars, outcome>>

\* popleft, then the task is to run: _run_task is called
HarnessTake ==
    /\ pc = "loop"
    /\ tasks # <<>>
    /\ ~skip_task(failed_tasks, popleft(tasks).item)
    /\ task' = popleft(tasks).item
    /\ tasks' = popleft(tasks).rest
    /\ pc' = "open_resource"
    /\ log' = log \o <<Ev("pop", Position + 1, popleft(tasks).item),
                       Ev("run_task", Position + 1, popleft(tasks).item)>>
    /\ UNCHANGED <<procVars, taken, failed_tasks, stack, exc, errs, resourceVars,
                   outputVars, historyVars, outcome>>

Failed_stopping_loop(types) ==
    LET es == Raise(errs, types, Handled(stack), Position)
    IN /\ errs' = es
       /\ failed_tasks' = Append(failed_tasks, task)
       /\ stack' = Append(stack, Len(es))
       /\ pc' = "unwind"

Failed_recording_first(types) ==
    LET es == Raise(errs, types, Handled(stack), Position)
    IN /\ errs' = es
       /\ failed_tasks' = <<task>> \o failed_tasks
       /\ stack' = Append(stack, Len(es))
       /\ pc' = "loop"

\* the except clause and the finally block of the harness for an exception of
\* _run_task: the task is recorded, the error raised again, the harness called
\* again while the error is pending in this frame
Failed(types) ==
    LET es == Raise(errs, types, Handled(stack), Position)
    IN /\ errs' = es
       /\ failed_tasks' = Append(failed_tasks, task)
       /\ stack' = Append(stack, Len(es))
       /\ pc' = "loop"

\* _run_task going on to the task although open_resource raised
RunTaskOpen_ignoring_failure ==
    /\ pc = "open_resource"
    /\ \E closeOut \in CloseOutcomes, openOut \in OpenOutcomes :
         LET r == open_resource(rm, handle, required_resource(task),
                                resource_config(task), closeOut, openOut, opens)
         IN /\ rm' = r.rm
            /\ handle' = r.handle
            /\ opens' = r.opens
            /\ log' = log \o Stamp(r.log, Position)
            /\ pc' = "instantiate"
            /\ UNCHANGED <<failed_tasks, stack, errs>>
    /\ UNCHANGED <<procVars, taken, tasks, task, exc, outputVars, historyVars,
                   outcome>>

\* _run_task, first statement: resource_manager.open_resource
RunTaskOpen ==
    /\ pc = "open_resource"
    /\ \E closeOut \in CloseOutcomes, openOut \in OpenOutcomes :
         LET r == open_resource(rm, handle, required_resource(task),
                                resource_config(task), closeOut, openOut, opens)
         IN /\ rm' = r.rm
            /\ handle' = r.handle
            /\ opens' = r.opens
            /\ log' = log \o Stamp(r.log, Position)
            /\ IF r.raised # <<>>
               THEN Failed(r.raised)
               ELSE /\ pc' = "instantiate"
                    /\ UNCHANGED <<failed_tasks, stack, errs>>
    /\ UNCHANGED <<procVars, taken, tasks, task, exc, outputVars, historyVars,
                   outcome>>

\* _run_task, second statement: task_instance = task()
RunTaskInstantiate ==
    /\ pc = "instantiate"
    /\ pc' = "call"
    /\ log' = Append(log, Ev("instantiate", Position, task))
    /\ UNCHANGED <<procVars, taken, harnessVars, resourceVars, outputVars,
                   historyVars, outcome>>

\* _run_task, third statement: task_instance(), that is BaseTask.__call__:
\* run() is invoked and what it returns is stored as the output of the class.
\* The body may read the output of one task type and take its value.
RunTaskCall ==
    /\ pc = "call"
    /\ \E rd \in Readable(task) \cup {None}, out \in BodyOutcomes :
         LET g == IF rd = None
                  THEN [placeholders |-> placeholders, cells |-> cells,
                        kind |-> None, ref |-> NoPlaceholder, value |-> None]
                  ELSE TaskOutput_get(values, placeholders, cells, rd)
             unresolved == /\ g.kind = "placeholder"
                           /\ Placeholder_value(g.cells, g.ref).raised
         IN /\ IF unresolved \/ out = "raise"
               THEN /\ Failed(<<IF unresolved THEN "AttributeError" ELSE "TaskError">>)
                    /\ placeholders' = g.placeholders
                    /\ cells' = g.cells
                    /\ log' = log \o <<Ev("invoke", Position, task),
                                       Ev("raised", Position, task)>>
                    /\ UNCHANGED values
               ELSE LET s == TaskOutput_set(values, g.placeholders, g.cells, task, Result)
                    IN /\ values' = s.values
                       /\ placeholders' = s.placeholders
                       /\ cells' = s.cells
                       /\ log' = log \o <<Ev("invoke", Position, task),
                                          Ev("returned", Position, task),
                                          Ev("output", Position, task)>>
                       /\ stack' = Append(stack, NoExc)
                       /\ pc' = "loop"
                       /\ UNCHANGED <<failed_tasks, errs>>
    /\ UNCHANGED <<procVars, taken, tasks, task, exc, held, resourceVars, historyVars,
                   outcome>>

\* the harness call made in a finally block is over and the frame that made
\* it goes on: an exception of the call leaves the frame too; after a normal
\* return the frame's own pending exception is raised again, or the loop goes on
HarnessUnwind ==
    /\ pc = "unwind"
    /\ stack # <<>>
    /\ stack' = SubSeq(stack, 1, Len(stack) - 1)
    /\ IF exc # NoExc
       THEN UNCHANGED <<pc, exc>>
       ELSE IF stack[Len(stack)] # NoExc
       THEN /\ exc' = stack[Len(stack)]
            /\ UNCHANGED pc
       ELSE /\ pc' = "loop"
            /\ UNCHANGED exc
    /\ UNCHANGED <<procVars, taken, tasks, failed_tasks, task, errs, resourceVars,
                   outputVars, historyVars, log, outcome>>

\* _run_tasks after the harness: an exception is replaced by BigRaysError
\* raised from it, and the with block of BigRays.run is left
RunTasksEnd ==
    /\ pc = "unwind"
    /\ stack = <<>>
    /\ pc' = "exit"
    /\ IF exc # NoExc
       THEN /\ errs' = Append(errs, [type |-> "BigRaysError", context |-> exc,
                                     cause |-> exc, pos |-> NoExc])
            /\ exc' = Len(errs) + 1
       ELSE UNCHANGED <<errs, exc>>
    /\ UNCHANGED <<procVars, taken, tasks, failed_tasks, stack, task, resourceVars,
                   outputVars, historyVars, log, outcome>>

RunExit_dropping_flag ==
    /\ pc = "exit"
    /\ \E closeOut \in CloseOutcomes :
         LET c == cleanup(rm, handle, closeOut)
         IN /\ rm' = c.rm
            /\ handle' = c.handle
            /\ log' = log \o <<Ev("exit", Len(runList) + 1, None)>>
                           \o Stamp(c.log, Len(runList) + 1)
                           \o <<Ev(IF c.ignore THEN "ignore" ELSE "pass",
                                   Len(runList) + 1, None)>>
            /\ IF c.raised # <<>>
               THEN /\ errs' = Raise(errs, c.raised, exc, NoExc)
                    /\ exc' = Len(errs) + 1
                    /\ outcome' = c.raised[1]
               ELSE /\ UNCHANGED <<errs, exc>>
                    /\ outcome' = IF exc # NoExc
                                  THEN errs[exc].type ELSE "returned"
    /\ pc' = "idle"
    /\ runs' = runs + 1
    /\ UNCHANGED <<taken, TASK_REGISTER, BigRaysConfig, apiVars, tasks, failed_tasks, stack,
                   task, opens, outputVars, historyVars>>

\* ResourceManager.__exit__ and the end of BigRays.run
RunExit ==
    /\ pc = "exit"
    /\ \E closeOut \in CloseOutcomes :
         LET c == cleanup(rm, handle, closeOut)
         IN /\ rm' = c.rm
            /\ handle' = c.handle
            /\ log' = log \o <<Ev("exit", Len(runList) + 1, None)>>
                           \o Stamp(c.log, Len(runList) + 1)
                           \o <<Ev(IF c.ignore THEN "ignore" ELSE "pass",
                                   Len(runList) + 1, None)>>
            /\ IF c.raised # <<>>
               THEN /\ errs' = Raise(errs, c.raised, exc, NoExc)
                    /\ exc' = Len(errs) + 1
                    /\ outcome' = c.raised[1]
               ELSE /\ UNCHANGED <<errs, exc>>
                    /\ outcome' = IF exc # NoExc /\ ~c.ignore
                                  THEN errs[exc].type ELSE "returned"
    /\ pc' = "idle"
    /\ runs' = runs + 1
    /\ UNCHANGED <<taken, TASK_REGISTER, BigRaysConfig, apiVars, tasks, failed_tasks, stack,
                   task, opens, outputVars, historyVars>>

Next ==
    \/ \E given \in SeqsUpTo(TaskNames, MaxTasks) : Run(given)
    \/ HarnessReturn
    \/ HarnessSkip
    \/ HarnessTake
    \/ RunTaskOpen
    \/ RunTaskInstantiate
    \/ RunTaskCall
    \/ HarnessUnwind
    \/ RunTasksEnd
    \/ RunExit

Spec == Init /\ [][Next]_vars

\* the steps of a call of BigRays.run that is under way: the interpreter
\* goes on executing them
Step ==
    \/ HarnessReturn
    \/ HarnessSkip
    \/ HarnessTake
    \/ RunTaskOpen
    \/ RunTaskInstantiate
    \/ RunTaskCall
    \/ HarnessUnwind
    \/ RunTasksEnd
    \/ RunExit

FairSpec == Init /\ [][Next]_vars /\ WF_vars(Step)

(* --------------------- the output store on its own --------------------- *)
\* what run() of a task may return: a result, or nothing
StoreValues == {"v1", None}

\* user code reads Task.output and keeps what it gets when it is a placeholder
StoreRead(key) ==
    LET g == TaskOutput_get(values, placeholders, cells, key)
    IN /\ pc = "idle"
       /\ Len(g.cells) <= MaxCells
       /\ placeholders' = g.placeholders
       /\ cells' = g.cells
       /\ held' = IF g.kind = "placeholder" THEN held \cup {<<key, g.ref>>} ELSE held
       /\ UNCHANGED <<pc, procVars, taken, harnessVars, resourceVars, values,
                      historyVars, log, outcome>>

\* a task instance is called on its own (Task()()): BaseTask.__call__ stores
\* what run() returned as the output of the class
StoreComplete(key, value) ==
    LET s == TaskOutput_set(values, placeholders, cells, key, value)
    IN /\ pc = "idle"
       /\ values' = s.values
       /\ placeholders' = s.placeholders
       /\ cells' = s.cells
       /\ UNCHANGED <<pc, procVars, taken, harnessVars, resourceVars, held,
                      historyVars, log, outcome>>

StoreNext ==
    \/ \E key \in TaskNames : StoreRead(key)
    \/ \E key \in TaskNames, value \in StoreValues : StoreComplete(key, value)

StoreSpec == Init /\ [][StoreNext]_vars

(* ---------------------- the pre-flight check on its own ---------------- *)
\* the configuration object of the tasks holds any of the keys
PreflightInit ==
    /\ Loaded
    /\ TASK_REGISTER \in Registers
    /\ classes = <<>>
    /\ defined_base_task = TRUE
    /\ taskConfig \in Configs

\* BigRays.run is called and the check passes or raises
PreflightNext == \E given \in SeqsUpTo(TaskNames, MaxTasks) : Run(given)

PreflightSpec == PreflightInit /\ [][PreflightNext]_vars

(* --------------------- class statements on their own ------------------- *)
\* tasks.py is being imported: Register is defined, BaseTask is not yet
RegisterInit ==
    /\ Loaded
    /\ BigRaysConfig = ConfigKeys
    /\ TASK_REGISTER = <<>>
    /\ classes = <<>>
    /\ defined_base_task = FALSE
    /\ taskConfig = ConfigKeys

\* a class statement whose metaclass is Register: Register.__new__ runs
DefineWithRegister(bases, namespace) ==
    LET name == TypeId(Len(classes) + 1)
        n == Register_new(defined_base_task, TASK_REGISTER, name,
                          BaseVars(classes, bases), hasattr_is_task(classes, bases),
                          namespace)
    IN /\ defined_base_task' = n.defined_base_task
       /\ TASK_REGISTER' = n.register
       /\ definition' = [name |-> name, bases |-> bases, ns |-> namespace,
                         raised |-> n.raised, missing |-> n.missing]
       /\ classes' = IF n.raised # None THEN classes
                   ELSE Append(classes, [id |-> name, meta |-> TRUE, bases |-> bases,
                                       ns |-> namespace, is_task |-> n.is_task])

\* class BaseTask(metaclass=Register), the first class statement: its body
\* binds no attribute to the marker, which is defined after it
DefineBaseTask ==
    /\ pc = "idle"
    /\ classes = <<>>
    /\ DefineWithRegister({}, [a \in AttrNames |-> Absent])
    /\ UNCHANGED <<pc, runs, BigRaysConfig, called, wrapperVars, taskConfig, taken,
                   harnessVars,
                   resourceVars, outputVars, historyVars, log, outcome>>

\* a class statement with no base that is a task class: an ordinary class,
\* Register does not run
DefinePlain(namespace) ==
    /\ pc = "idle"
    /\ classes # <<>>
    /\ Len(classes) < MaxTypes
    /\ classes' = Append(classes, [id |-> TypeId(Len(classes) + 1), meta |-> FALSE,
                               bases |-> {}, ns |-> namespace, is_task |-> FALSE])
    /\ definition' = [name |-> TypeId(Len(classes) + 1), bases |-> {},
                      ns |-> namespace, raised |-> None, missing |-> {}]
    /\ UNCHANGED <<pc, runs, TASK_REGISTER, defined_base_task, BigRaysConfig,
                   called, wrapperVars, taskConfig, taken, harnessVars, resourceVars, outputVars,
                   historyVars, log, outcome>>

\* a class statement naming one or two classes as bases, one of them a task
\* class: the metaclass of the new class is Register
DefineSubclass(bases, namespace) ==
    /\ pc = "idle"
    /\ Len(classes) < MaxTypes
    /\ bases # {} /\ Cardinality(bases) <= 2
    /\ \E b \in bases : ClassOf(classes, b).meta
    /\ DefineWithRegister(bases, namespace)
    /\ UNCHANGED <<pc, runs, BigRaysConfig, called, wrapperVars, taskConfig, taken,
                   harnessVars,
                   resourceVars, outputVars, historyVars, log, outcome>>

RegisterNext ==
    \/ DefineBaseTask
    \/ \E namespace \in Namespaces : DefinePlain(namespace)
    \/ \E bases \in SUBSET {classes[i].id : i \in 1..Len(classes)},
          namespace \in Namespaces : DefineSubclass(bases, namespace)

RegisterSpec == RegisterInit /\ [][RegisterNext]_vars

(* ----------------------- functional_interface.py ---------------------- *)
\* vars(base_task) of the task types given to wrap_task: A marks both
\* attributes as required (like A of the tests), D marks none
declared(t) ==
    IF t = "A" THEN [a \in AttrNames |-> REQUIRED_ATTRIBUTE]
    ELSE [a \in AttrNames |-> Absent]

\* the classes the wrappers created so far
Wrapped == Range(TASK_REGISTER) \cap WrapNames

\* wrapper(**kwargs), first statement: _create_subtask. types.new_class runs
\* Register.__new__ for a class below base_task whose body binds the keyword
\* arguments; TaskInterfaceError is turned into ValueError, which leaves the
\* wrapper
WrapCreate(base, kwargs) ==
    LET name == WrapName(base, Cardinality(Wrapped) + 1)
        n == Register_new(defined_base_task, TASK_REGISTER, name,
                          {declared(base)}, TRUE, kwargs)
    IN /\ pc = "idle"
       /\ wrapped = None
       /\ runs < MaxRuns
       /\ taken + 1 <= MaxTasks
       /\ definition' = [name |-> name, bases |-> {base}, ns |-> kwargs,
                         raised |-> n.raised, missing |-> n.missing]
       /\ TASK_REGISTER' = n.register
       /\ IF n.raised # None
          THEN /\ returned' = [NoReturn EXCEPT !.raised = "ValueError"]
               /\ UNCHANGED <<pc, wrapped, classes>>
          ELSE /\ pc' = "wrapper"
               /\ wrapped' = name
               /\ returned' = NoReturn
               /\ classes' = Append(classes, [id |-> name, meta |-> TRUE,
                                              bases |-> {base}, ns |-> kwargs,
                                              is_task |-> n.is_task])
       /\ UNCHANGED <<runs, BigRaysConfig, defined_base_task, called, taskConfig,
                      outer, taken, harnessVars, resourceVars, outputVars,
                      historyVars, log, outcome>>

WrapRun_default_list ==
    /\ pc = "wrapper"
    /\ BigRays_run(<<>>)

\* wrapper, second statement: bigrays_run(sub_task)
WrapRun ==
    /\ pc = "wrapper"
    /\ BigRays_run(<<wrapped>>)

\* wrapper, last statement: return sub_task.output, when bigrays_run
\* returned; else its exception leaves the wrapper
WrapReturn ==
    LET g == TaskOutput_get(values, placeholders, cells, wrapped)
    IN /\ pc = "idle"
       /\ wrapped # None
       /\ wrapped' = None
       /\ IF outcome = "returned"
          THEN /\ returned' = [task |-> wrapped, raised |-> None, kind |-> g.kind,
                               value |-> g.value, ref |-> g.ref]
               /\ placeholders' = g.placeholders
               /\ cells' = g.cells
          ELSE /\ returned' = [NoReturn EXCEPT !.task = wrapped, !.raised = outcome]
               /\ UNCHANGED <<placeholders, cells>>
       /\ UNCHANGED <<pc, runs, TASK_REGISTER, BigRaysConfig, called, registerVars,
                      taskConfig, outer, taken, harnessVars, resourceVars, values, held,
                      historyVars, log, outcome>>

\* the program calls BigRays.run() between two calls of a wrapper
RunDefault ==
    /\ wrapped = None
    /\ Run(<<>>)

\* the calls of the wrappers, the calls of BigRays.run() and the steps of the
\* runs they start; within the bounds no task of these runs is skipped: a
\* list of one task has no failure recorded when the task is taken, and the
\* registry (A, D) has D, which runs with exceptions, after A
WrapNext ==
    \/ \E base \in WrapBases, kwargs \in Namespaces : WrapCreate(base, kwargs)
    \/ WrapRun
    \/ RunDefault
    \/ HarnessReturn
    \/ HarnessTake
    \/ RunTaskOpen
    \/ RunTaskInstantiate
    \/ RunTaskCall
    \/ HarnessUnwind
    \/ RunTasksEnd
    \/ RunExit
    \/ WrapReturn

WrapSpec == Init /\ [][WrapNext]_vars

(* ------------------- a wrapper called in a task body ------------------- *)

\* the keyword arguments the task bodies call the wrappers with: every
\* attribute bound, or none
BodyKwargs == {[a \in AttrNames |-> "1"], [a \in AttrNames |-> Absent]}

\* the frames of a call of BigRays.run that wait while the body of its task
\* makes a call: the locals of run, _run_tasks and the harness, and, as
\* history, what the resource classes stored when the call was made
Frame(l) ==
    [tasks |-> tasks, failed_tasks |-> failed_tasks, stack |-> stack,
     task |-> task, exc |-> exc, errs |-> errs, rm |-> rm, runList |-> runList,
     startValues |-> startValues, args |-> args, message |-> message,
     log |-> l, outcome |-> outcome, handle |-> handle]

BodyWrapCreate_queueing(base, kwargs) ==
    LET name == WrapName(base, Cardinality(Wrapped) + 1)
        n == Register_new(defined_base_task, TASK_REGISTER, name,
                          {declared(base)}, TRUE, kwargs)
    IN /\ pc = "call"
       /\ outer = <<>>
       /\ wrapped = None
       /\ runs < MaxRuns
       /\ taken + 1 <= MaxTasks
       /\ definition' = [name |-> name, bases |-> {base}, ns |-> kwargs,
                         raised |-> n.raised, missing |-> n.missing]
       /\ TASK_REGISTER' = n.register
       /\ IF n.raised # None
          THEN /\ returned' = [NoReturn EXCEPT !.raised = "ValueError"]
               /\ Failed(<<"ValueError">>)
               /\ log' = log \o <<Ev("invoke", Position, task),
                                  Ev("raised", Position, task)>>
               /\ UNCHANGED <<wrapped, classes, outer>>
          ELSE /\ pc' = "wrapper"
               /\ wrapped' = name
               /\ returned' = NoReturn
               /\ classes' = Append(classes, [id |-> name, meta |-> TRUE,
                                              bases |-> {base}, ns |-> kwargs,
                                              is_task |-> n.is_task])
               /\ log' = log \o <<Ev("invoke", Position, task),
                                  Ev("nested", Position, task)>>
               /\ outer' = <<[Frame(log') EXCEPT !.tasks = Append(tasks, name)]>>
               /\ UNCHANGED <<failed_tasks, stack, errs>>
       /\ UNCHANGED <<runs, BigRaysConfig, defined_base_task, called, taskConfig,
                      taken, tasks, task, exc, resourceVars, outputVars,
                      historyVars, outcome>>

\* the body of the task under way calls a wrapper made by wrap_task; first
\* statement of the wrapper: _create_subtask, as in WrapCreate. ValueError
\* leaves the wrapper and the body; else the frames of the run wait for the
\* wrapper
BodyWrapCreate(base, kwargs) ==
    LET name == WrapName(base, Cardinality(Wrapped) + 1)
        n == Register_new(defined_base_task, TASK_REGISTER, name,
                          {declared(base)}, TRUE, kwargs)
    IN /\ pc = "call"
       /\ outer = <<>>
       /\ wrapped = None
       /\ runs < MaxRuns
       /\ taken + 1 <= MaxTasks
       /\ definition' = [name |-> name, bases |-> {base}, ns |-> kwargs,
                         raised |-> n.raised, missing |-> n.missing]
       /\ TASK_REGISTER' = n.register
       /\ IF n.raised # None
          THEN /\ returned' = [NoReturn EXCEPT !.raised = "ValueError"]
               /\ Failed(<<"ValueError">>)
               /\ log' = log \o <<Ev("invoke", Position, task),
                                  Ev("raised", Position, task)>>
               /\ UNCHANGED <<wrapped, classes, outer>>
          ELSE /\ pc' = "wrapper"
               /\ wrapped' = name
               /\ returned' = NoReturn
               /\ classes' = Append(classes, [id |-> name, meta |-> TRUE,
                                              bases |-> {base}, ns |-> kwargs,
                                              is_task |-> n.is_task])
               /\ log' = log \o <<Ev("invoke", Position, task),
                                  Ev("nested", Position, task)>>
               /\ outer' = <<Frame(log')>>
               /\ UNCHANGED <<failed_tasks, stack, errs>>
       /\ UNCHANGED <<runs, BigRaysConfig, defined_base_task, called, taskConfig,
                      taken, tasks, task, exc, resourceVars, outputVars,
                      historyVars, outcome>>

\* the wrapper called in the body is over and the frames of the run go on:
\* after a return the body goes on, an exception of the wrapper leaves the
\* body and _run_task
NestedReturn ==
    LET f == outer[1]
        k == Len(f.runList) - Len(f.tasks)
        es == Raise(f.errs, <<returned.raised>>, Handled(f.stack), k)
    IN /\ pc = "idle"
       /\ outer # <<>>
       /\ wrapped = None
       /\ outer' = <<>>
       /\ tasks' = f.tasks
       /\ task' = f.task
       /\ exc' = f.exc
       /\ rm' = f.rm
       /\ runList' = f.runList
       /\ startValues' = f.startValues
       /\ args' = f.args
       /\ message' = f.message
       /\ outcome' = f.outcome
       /\ IF returned.raised # None
          THEN /\ errs' = es
               /\ failed_tasks' = Append(f.failed_tasks, f.task)
               /\ stack' = Append(f.stack, Len(es))
               /\ log' = Append(f.log, Ev("raised", k, f.task))
               /\ pc' = "loop"
          ELSE /\ errs' = f.errs
               /\ failed_tasks' = f.failed_tasks
               /\ stack' = f.stack
               /\ log' = f.log
               /\ pc' = "call"
       /\ UNCHANGED <<runs, taken, TASK_REGISTER, BigRaysConfig, called, registerVars,
                      wrapped, returned, taskConfig, handle, opens, outputVars>>

\* the program calls BigRays.run, no call being under way
NestedRun(given) ==
    /\ outer = <<>>
    /\ wrapped = None
    /\ Run(given)

\* the calls of BigRays.run the program makes with up to two tasks, the steps
\* of the runs, and the calls of the wrappers made in the bodies of the tasks
NestedNext ==
    \/ \E given \in SeqsUpTo(TaskNames, MaxTasks - 1) : NestedRun(given)
    \/ \E base \in WrapBases, kwargs \in BodyKwargs : BodyWrapCreate(base, kwargs)
    \/ WrapRun
    \/ HarnessReturn
    \/ HarnessSkip
    \/ HarnessTake
    \/ RunTaskOpen
    \/ RunTaskInstantiate
    \/ RunTaskCall
    \/ HarnessUnwind
    \/ RunTasksEnd
    \/ RunExit
    \/ WrapReturn
    \/ NestedReturn

NestedSpec == Init /\ [][NestedNext]_vars

(* ------------------- the resource classes on their own ----------------- *)
\* user code calls Resource.open(config)
ResourceOpen(r, out) ==
    LET o == BaseResource_open(handle, r, DefaultConfig, out, opens)
    IN /\ pc = "idle"
       /\ opens < MaxOpens
       /\ handle' = o.handle
       /\ opens' = o.opens
       /\ called' = [op |-> "open", resource |-> r, raised |-> o.raised,
                     value |-> IF o.raised = <<>> THEN r ELSE None,
                     log |-> o.log, before |-> handle[r]]
       /\ UNCHANGED <<pc, runs, TASK_REGISTER, BigRaysConfig, registerVars,
                      wrapperVars, taskConfig, taken,
                      harnessVars,
                      rm, outputVars, historyVars, log, outcome>>

\* user code calls Resource.close()
ResourceClose(r, out) ==
    LET c == BaseResource_close(handle, r, out)
    IN /\ pc = "idle"
       /\ handle' = c.handle
       /\ called' = [op |-> "close", resource |-> r, raised |-> c.raised,
                     value |-> IF c.raised = <<>> THEN out ELSE None,
                     log |-> c.log, before |-> handle[r]]
       /\ UNCHANGED <<pc, runs, TASK_REGISTER, BigRaysConfig, registerVars,
                      wrapperVars, taskConfig, taken,
                      harnessVars,
                      rm, opens, outputVars, historyVars, log, outcome>>

\* user code calls Resource.resource()
ResourceGet(r) ==
    LET g == BaseResource_resource(handle, r)
    IN /\ pc = "idle"
       /\ called' = [op |-> "resource", resource |-> r, raised |-> g.raised,
                     value |-> g.value, log |-> <<>>, before |-> handle[r]]
       /\ UNCHANGED <<pc, runs, TASK_REGISTER, BigRaysConfig, registerVars,
                      wrapperVars, taskConfig, taken,
                      harnessVars,
                      resourceVars, outputVars, historyVars, log, outcome>>

ResourceNext ==
    \/ \E r \in Resources, out \in OpenOutcomes : ResourceOpen(r, out)
    \/ \E r \in Resources, out \in CloseOutcomes : ResourceClose(r, out)
    \/ \E r \in Resources : ResourceGet(r)

ResourceSpec == Init /\ [][ResourceNext]_vars

(* ------------------------- reading the history ------------------------- *)
Kind(e) == e[1]
Pos(e) == e[2]
Subject(e) == e[3]
Extra(e) == e[4]

LogIndex == 1..Len(log)

HasEv(kind, k) == \E i \in LogIndex : Kind(log[i]) = kind /\ Pos(log[i]) = k

CountEv(kind, k) == Cardinality({i \in LogIndex : Kind(log[i]) = kind /\ Pos(log[i]) = k})

\* the events that are an exception leaving _run_task
FailureKinds == {"raised", "open_failed", "close_failed", "close_refused"}

\* the task at position k raised: its resource could not be ensured or its body failed
RaisedAt(k) == \E i \in LogIndex : Kind(log[i]) \in FailureKinds /\ Pos(log[i]) = k

\* a call of BigRays.run that passed the pre-flight check is over
RunOver == pc = "idle" /\ outcome \notin {None, "ConfigurationError"}

\* the positions 1..n of a set, in ascending order
RECURSIVE Ascending(_)
Ascending(S) ==
    IF S = {} THEN <<>>
    ELSE LET m == CHOOSE x \in S : \A y \in S : x <= y
         IN <<m>> \o Ascending(S \ {m})

\* the positions of the run's list whose task raised
FailedPositions == {k \in 1..Len(runList) : RaisedAt(k)}

\* the close made at the scope exit, as recorded: its events
ExitEvents == {i \in LogIndex : Pos(log[i]) = Len(runList) + 1}
ExitCloseRaised ==
    \E i \in ExitEvents : Kind(log[i]) \in {"close_failed", "close_refused"}
ExitCloseSuppressed ==
    \E i \in ExitEvents : Kind(log[i]) = "ignore"

(* ------------------------------ claims --------------------------------- *)

\* C1: a task taken from the queue is executed (_run_task is called for it)
\* if and only if no earlier task of this run raised or the task has
\* run_with_exceptions; otherwise it is skipped, and for a skipped task
\* nothing happens but the pop: no resource call, no instantiation, no
\* invocation, no output.
C1_SkipSemantics ==
    \A k \in 1..Position :
        LET failedBefore == \E j \in 1..(k - 1) : RaisedAt(j)
        IN /\ HasEv("run_task", k) <=> (~failedBefore \/ run_with_exceptions(runList[k]))
           /\ HasEv("skip", k) <=> ~HasEv("run_task", k)
           /\ HasEv("skip", k) =>
                \A i \in LogIndex : Pos(log[i]) = k => Kind(log[i]) \in {"pop", "skip"}

\* a run over in which a task failed, a later one was skipped and a still
\* later one, with run_with_exceptions, was instantiated and invoked
C1_Witness ==
    /\ RunOver
    /\ \E j, k, l \in 1..Len(runList) :
         /\ j < k /\ k < l
         /\ RaisedAt(j) /\ HasEv("skip", k) /\ HasEv("invoke", l)

\* C2 (safety part): every position up to the current one was popped exactly
\* once, in list order, with the task the list names there, and was then
\* either skipped once or executed once; when the run is over every task of
\* the list has been taken.
C2_ExactlyOnce ==
    /\ \A k \in 1..Position :
         /\ CountEv("pop", k) = 1
         /\ \A i \in LogIndex : Kind(log[i]) = "pop" /\ Pos(log[i]) = k
                                  => Subject(log[i]) = runList[k]
         /\ CountEv("skip", k) + CountEv("run_task", k) = 1
         /\ CountEv("instantiate", k) <= 1
         /\ CountEv("invoke", k) <= 1
    /\ \A i, j \in LogIndex :
         i < j /\ Kind(log[i]) = "pop" /\ Kind(log[j]) = "pop" => Pos(log[i]) < Pos(log[j])
    /\ \A i \in LogIndex : Kind(log[i]) = "pop" => Pos(log[i]) \in 1..Position
    /\ RunOver => Position = Len(runList) /\ tasks = <<>>

\* C2 (termination): a call of BigRays.run that is under way comes to its end
C2_Terminates == (pc # "idle") ~> (pc = "idle")

\* C2: a failure never stops the loop: the run terminates and every task of
\* the list is taken exactly once, in order, and executed or skipped once.
C2_LoopNeverStops == []C2_ExactlyOnce /\ C2_Terminates

\* a run of three tasks is over, two of them failed, one was skipped
C2_Witness ==
    /\ RunOver
    /\ Len(runList) = 3
    /\ Cardinality(FailedPositions) = 2
    /\ \E k \in 1..3 : HasEv("skip", k)

\* C3 as stated: the run fails with BigRaysError if a task was recorded as
\* failed, whatever the closes return, and returns normally only if none failed.
C3_Original ==
    RunOver =>
        /\ failed_tasks # <<>> => outcome = "BigRaysError"
        /\ outcome = "returned" => failed_tasks = <<>>

\* C3 amended: when the close at the scope exit fails, the run fails with
\* the error of that close; otherwise, when a task was recorded as failed, the
\* run fails with BigRaysError unless that close returned the suppress flag,
\* and then it returns normally; when no task failed it returns normally.
\* BigRaysError is raised only after every task was executed or skipped.
C3_RunOutcome ==
    /\ RunOver =>
         outcome = CASE ExitCloseRaised -> outcome
                     [] failed_tasks # <<>> /\ ~ExitCloseSuppressed -> "BigRaysError"
                     [] OTHER -> "returned"
    /\ RunOver /\ ExitCloseRaised => outcome \in {"ResourceError", "CloseError"}
    /\ \A e \in 1..Len(errs) : errs[e].type = "BigRaysError" =>
         /\ tasks = <<>>
         /\ failed_tasks # <<>>
         /\ \A k \in 1..Len(runList) : HasEv("skip", k) \/ HasEv("run_task", k)

\* a run is over with failed tasks, the close at the exit returned the
\* suppress flag and the run returned normally
C3_Witness ==
    /\ RunOver
    /\ failed_tasks # <<>>
    /\ ExitCloseSuppressed
    /\ outcome = "returned"

\* C4: failed_tasks holds exactly the tasks of the positions whose resource
\* ensure or body raised, one entry per failure, in the order of failure; a
\* skipped position and a position whose body returned are not among them.
C4_FailureRecord ==
    /\ failed_tasks = [i \in 1..Cardinality(FailedPositions) |->
                          runList[Ascending(FailedPositions)[i]]]
    /\ \A k \in 1..Len(runList) :
         HasEv("skip", k) \/ HasEv("returned", k) => k \notin FailedPositions

\* a run is over: the first task failed, the second was skipped, the third
\* failed too, and the two failed tasks differ
C4_Witness ==
    /\ RunOver
    /\ Len(runList) = 3
    /\ FailedPositions = {1, 3}
    /\ HasEv("skip", 2)
    /\ runList[1] # runList[3]

\* the error the harness caught for the task at position k: the last one
\* raised there
ErrOf(k) ==
    CHOOSE e \in 1..Len(errs) :
        /\ errs[e].pos = k
        /\ \A f \in 1..Len(errs) : errs[f].pos = k => f <= e

\* the errors reached from e by following __context__, e first
RECURSIVE ContextChain(_)
ContextChain(e) ==
    IF e = NoExc THEN <<>> ELSE <<e>> \o ContextChain(errs[e].context)

Reverse(q) == [i \in 1..Len(q) |-> q[Len(q) + 1 - i]]

\* the errors of the failed tasks, in the order of failure
TaskErrors ==
    [i \in 1..Cardinality(FailedPositions) |-> ErrOf(Ascending(FailedPositions)[i])]

IsTaskError(e) == \E i \in 1..Len(TaskErrors) : TaskErrors[i] = e

\* C5: the cause and the context of the aggregate error are the error of the
\* task that failed last, and the context chain from it goes through the
\* error of every failed task, in reverse order of failure, losing none.
C5_ContextChain ==
    \A b \in 1..Len(errs) :
        errs[b].type = "BigRaysError" =>
            /\ TaskErrors # <<>>
            /\ errs[b].cause = TaskErrors[Len(TaskErrors)]
            /\ errs[b].context = TaskErrors[Len(TaskErrors)]
            /\ SelectSeq(ContextChain(errs[b].cause), IsTaskError) = Reverse(TaskErrors)

\* the aggregate error was raised in a run in which three tasks failed
C5_Witness ==
    /\ \E b \in 1..Len(errs) : errs[b].type = "BigRaysError"
    /\ Cardinality(FailedPositions) = 3

\* the order of the steps made for one task
Rank(kind) ==
    CASE kind \in {"pop", "exit"} -> 1
      [] kind \in {"skip", "run_task"} -> 2
      [] kind = "close" -> 3
      [] kind \in {"closed", "close_failed", "close_refused"} -> 4
      [] kind = "open" -> 5
      [] kind \in {"opened", "open_failed"} -> 6
      [] kind = "instantiate" -> 7
      [] kind = "invoke" -> 8
      [] kind \in {"raised", "returned"} -> 9
      [] kind = "output" -> 10
      [] OTHER -> 11

\* C6: tasks are processed one at a time in the order of the list: every
\* step made for the task at one position comes before every step made for a
\* later position, the task popped at position k is the k-th of the list, and
\* the steps for one task are ordered: resource transition (close, then
\* open), instantiation, invocation, output; a body that returned has its
\* output recorded before anything is done for the next task.
C6_Ordering ==
    /\ \A i, j \in LogIndex :
         i < j =>
            /\ Pos(log[i]) <= Pos(log[j])
            /\ Pos(log[i]) = Pos(log[j]) => Rank(Kind(log[i])) < Rank(Kind(log[j]))
    /\ \A i \in LogIndex :
         Kind(log[i]) \in {"pop", "run_task", "instantiate", "invoke", "output"}
            => Subject(log[i]) = runList[Pos(log[i])]
    /\ \A k \in 1..Position :
         /\ HasEv("invoke", k) => HasEv("instantiate", k) /\ HasEv("run_task", k)
         /\ HasEv("returned", k) => HasEv("output", k) /\ values[runList[k]] # Absent

\* a run of three tasks is over, all three ran and produced their output, and
\* the second and the third each needed a resource transition
C6_Witness ==
    /\ RunOver
    /\ Len(runList) = 3
    /\ \A k \in 1..3 : HasEv("output", k)
    /\ HasEv("closed", 2) /\ HasEv("opened", 2)
    /\ HasEv("closed", 3) /\ HasEv("opened", 3)

\* what reading the output of the task type j yields now
ReadOutput(j) == TaskOutput_get(values, placeholders, cells, j)

\* an execution of the task type j before the current position returned
SucceededBefore(j) ==
    \E i \in 1..(Position - 1) : runList[i] = j /\ HasEv("returned", i)

\* an execution of the task type j before the current position raised
FailedBefore(j) ==
    \E i \in 1..(Position - 1) : runList[i] = j /\ RaisedAt(i)

\* C7: in a run that started with an empty output store, when the body of the
\* task at the current position runs, reading the output of a task type j
\* yields the result j produced in this run if and only if j stands before the
\* current position in the list and succeeded there; otherwise it yields a
\* placeholder that is not resolved.
C7_OutputVisibility ==
    pc = "call" /\ (\A t \in TaskNames : startValues[t] = Absent) =>
        \A j \in TaskNames :
            /\ ReadOutput(j).kind = "value" <=> SucceededBefore(j)
            /\ ReadOutput(j).kind = "value" => ReadOutput(j).value = Result
            /\ ReadOutput(j).kind # "value" =>
                  ReadOutput(j).kind = "placeholder" /\ ReadOutput(j).value = UNSET

\* the body of the third task runs in a first run: the first task succeeded
\* and its output reads as a value, the second failed and its output reads as
\* a placeholder
C7_Witness ==
    /\ pc = "call"
    /\ \A t \in TaskNames : startValues[t] = Absent
    /\ Position = 3
    /\ HasEv("returned", 1) /\ ReadOutput(runList[1]).kind = "value"
    /\ RaisedAt(2) /\ ReadOutput(runList[2]).kind = "placeholder"

\* C8 as stated: when a task failed in this run (and no execution of it in
\* this run succeeded), a later body reading its output gets an unresolved
\* placeholder, whose value raises, in every run of the process.
C8_Original ==
    pc = "call" =>
        \A j \in TaskNames :
            FailedBefore(j) /\ ~SucceededBefore(j) =>
                ReadOutput(j).kind = "placeholder" /\ ReadOutput(j).value = UNSET

\* the configuration open_resource uses for the task t
ConfigFor(t) == IF resource_config(t) = None THEN DefaultConfig ELSE resource_config(t)

\* open_resource is about to be called with the pair that is active
SamePair ==
    /\ pc = "open_resource"
    /\ required_resource(task) = rm.resource
    /\ ConfigFor(task) = rm.config

\* the calls of open and of close recorded in the run
Calls(kind) == Cardinality({i \in LogIndex : Kind(log[i]) = kind})

\* every task of the run's list needs the same resource, with the same
\* configuration object
OnePairRun ==
    /\ Len(runList) >= 2
    /\ required_resource(runList[1]) # None
    /\ \A k \in 1..Len(runList) :
         /\ required_resource(runList[k]) = required_resource(runList[1])
         /\ ConfigFor(runList[k]) = ConfigFor(runList[1])

C9_OneOpenOneClose ==
    RunOver /\ OnePairRun =>
        /\ Calls("open") = 1
        /\ Calls("close") = IF Calls("opened") = 1 THEN 1 ELSE 0

\* C9: open_resource called with the resource and the configuration object
\* that are active does nothing: no close, no open, the manager and the
\* handles are as before and _run_task goes on; so a run whose tasks all need
\* one (resource, configuration) pair calls open once and, when that open
\* succeeded, close once (at the scope exit), whatever number of tasks ran.
C9_SamePairNoOp ==
    /\ []C9_OneOpenOneClose
    /\ [][SamePair => /\ rm' = rm
                      /\ handle' = handle
                      /\ opens' = opens
                      /\ log' = log
                      /\ pc' = "instantiate"]_vars

\* a run of tasks that all need one pair is over: two of them were executed,
\* open was called once and succeeded, close was called once
C9_Witness ==
    /\ RunOver /\ OnePairRun
    /\ HasEv("run_task", 1) /\ HasEv("run_task", 2)
    /\ ~HasEv("open", 2) /\ ~HasEv("close", 2)
    /\ Calls("opened") = 1 /\ Calls("close") = 1

\* open_resource is about to be called with another resource or another
\* configuration object than the active ones, while a resource is active and
\* was opened
Switch ==
    /\ pc = "open_resource"
    /\ required_resource(task) # rm.resource \/ ConfigFor(task) # rm.config
    /\ rm.resource # NoneSentinel
    /\ ~rm.opening_resource

\* C10: a switch calls close on the active resource first; open is called
\* only after that close returned, on the requested resource with the
\* requested configuration, and it is called whenever the close returned and
\* a resource is requested; the handle that was open is the one the close
\* released, so after the switch the old resource holds no handle when another
\* resource was requested, and holds at most the newly opened handle when the
\* same resource was requested with another configuration object: the old
\* handle and the new one are never open together.
C10_CloseThenOpen ==
    [][Switch =>
        LET new == SubSeq(log', Len(log) + 1, Len(log'))
            old == rm.resource
            req == required_resource(task)
        IN /\ Len(new) >= 2
           /\ Kind(new[1]) = "close" /\ Subject(new[1]) = old
           /\ \A i \in 1..Len(new) :
                Kind(new[i]) = "open" =>
                    /\ i = 3
                    /\ Kind(new[2]) = "closed"
                    /\ Subject(new[i]) = req
                    /\ Extra(new[i]) = ConfigFor(task)
           /\ Kind(new[2]) = "closed" /\ req # None =>
                Len(new) = 4 /\ Kind(new[3]) = "open"
           /\ Kind(new[2]) = "closed" /\ req # old => handle'[old] = None
           /\ Kind(new[2]) = "closed" /\ req = old =>
                handle'[old] \in {None, NewHandle(opens + 1)}
           /\ (\E i \in 1..Len(new) : Kind(new[i]) = "open") =>
                handle[old] # None /\ Extra(new[2]) = handle[old]
    ]_vars

\* a run switched from a resource to the same resource with another
\* configuration object and then to another resource, each time closing the
\* old one and then opening the requested one
C10_Witness ==
    \E i, j \in LogIndex :
        /\ i + 2 < j /\ j + 2 <= Len(log)
        /\ Kind(log[i]) = "closed" /\ Kind(log[i + 1]) = "open"
        /\ Kind(log[i + 2]) = "opened"
        /\ Subject(log[i]) = Subject(log[i + 1])
        /\ Kind(log[j]) = "closed" /\ Kind(log[j + 1]) = "open"
        /\ Kind(log[j + 2]) = "opened"
        /\ Subject(log[j]) # Subject(log[j + 1])

\* the events a step adds to the history
NewEvents == SubSeq(log', Len(log) + 1, Len(log'))

\* the calls of close among the events a step adds
NewCloses == {i \in 1..Len(NewEvents) : Kind(NewEvents[i]) = "close"}

\* an open of the resource r returned a handle in this run
OpenedInRun(r) ==
    \E i \in LogIndex :
        Kind(log[i]) = "opened" /\ Subject(log[i]) = r /\ Extra(log[i]) # None

\* the manager holds a resource whose open returned
ActiveOpened == rm.resource # NoneSentinel /\ ~rm.opening_resource

\* C11: leaving the scope, with or without an exception in flight, calls
\* close exactly once on the resource that is active and whose open returned,
\* and calls no close otherwise; after a run that finished normally or with
\* the aggregate error, every resource an open returned a handle for in the
\* run holds no handle any more.
C11_ExitClosesOnce ==
    /\ [](RunOver /\ outcome \in {"returned", "BigRaysError"} =>
            \A r \in Resources : OpenedInRun(r) => handle[r] = None)
    /\ [][pc = "exit" =>
            /\ Cardinality(NewCloses) = IF ActiveOpened THEN 1 ELSE 0
            /\ \A i \in NewCloses : Subject(NewEvents[i]) = rm.resource
        ]_vars

\* a run with a failed task is over with the aggregate error: a resource was
\* opened in it and the close at the scope exit released it
C11_Witness ==
    /\ RunOver /\ outcome = "BigRaysError"
    /\ \E r \in Resources :
         /\ OpenedInRun(r)
         /\ \E i \in ExitEvents : Kind(log[i]) = "closed" /\ Subject(log[i]) = r
         /\ handle[r] = None

\* C12: after an open that failed no close is called until an open has
\* returned: neither the next open_resource call, which switches, nor the
\* scope exit calls close for the failed attempt.
C12_NoCloseAfterFailedOpen ==
    \A i, j \in LogIndex :
        i < j /\ Kind(log[i]) = "open_failed" /\ Kind(log[j]) = "close" =>
            \E k \in (i + 1)..(j - 1) : Kind(log[k]) = "opened"

\* a run is over in which an open failed, the next open_resource call switched
\* and opened without any close, and the scope exit closed what that call opened
C12_Witness ==
    /\ RunOver
    /\ \E i, j \in LogIndex :
         /\ i < j
         /\ Kind(log[i]) = "open_failed" /\ Kind(log[j]) = "opened"
         /\ \A k \in (i + 1)..(j - 1) : Kind(log[k]) # "close"
         /\ Pos(log[i]) < Pos(log[j])
    /\ \E i \in ExitEvents : Kind(log[i]) = "closed"

\* a run is over that reached the scope exit mid-open: its last task failed to
\* open its resource and the exit called no close
C12_ExitMidOpen ==
    /\ RunOver
    /\ \E i \in LogIndex : Kind(log[i]) = "open_failed" /\ Pos(log[i]) = Len(runList)
    /\ \A i \in ExitEvents : Kind(log[i]) # "close"

\* the events of the given kinds about the resource r, in order
ResourceCalls(r, kinds) ==
    SelectSeq(log, LAMBDA e : Kind(e) \in kinds /\ Subject(e) = r)

\* the kinds of q are first, second, first, second, ...
Alternates(q, first, second) ==
    \A i \in 1..Len(q) : Kind(q[i]) = IF i % 2 = 1 THEN first ELSE second

\* C13 as stated: per resource the opens that returned and the calls of
\* close strictly alternate, starting with an open, also when closes fail.
C13_Original ==
    \A r \in Resources :
        Alternates(ResourceCalls(r, {"opened", "close"}), "opened", "close")

\* C13 amended: per resource the opens that returned and the closes that
\* returned strictly alternate, starting with an open (a resource is never
\* opened again before its close returned); close is called only on a
\* resource whose open returned and whose close has not returned since (a
\* close that raised may be called again); and the close logic of a
\* resource only runs while the resource holds a handle.
C13_OpenCloseProtocol ==
    \A r \in Resources :
        /\ Alternates(ResourceCalls(r, {"opened", "closed"}), "opened", "closed")
        /\ \A j \in LogIndex :
             Kind(log[j]) = "close" /\ Subject(log[j]) = r =>
                \E i \in 1..(j - 1) :
                    /\ Kind(log[i]) = "opened" /\ Subject(log[i]) = r
                    /\ \A k \in (i + 1)..(j - 1) :
                         ~(Kind(log[k]) = "closed" /\ Subject(log[k]) = r)
        /\ \A j \in LogIndex :
             Kind(log[j]) \in {"closed", "close_failed"} /\ Subject(log[j]) = r =>
                Extra(log[j]) # None

\* a run is over in which the close of a switch raised and the scope exit
\* called close on the same resource again, this time with success
C13_Witness ==
    /\ RunOver
    /\ \E i, j \in LogIndex :
         /\ i < j
         /\ Kind(log[i]) = "close_failed" /\ Pos(log[i]) <= Len(runList)
         /\ Kind(log[j]) = "closed" /\ Pos(log[j]) = Len(runList) + 1
         /\ Subject(log[i]) = Subject(log[j])

\* the resources that are in the open state: their class holds a handle
OpenResources == {r \in Resources : handle[r] # None}

\* C14 as stated: in every state of a run scope at most one resource is
\* open, and a resource that is open is the one the manager holds as active.
C14_Original ==
    pc # "idle" =>
        /\ Cardinality(OpenResources) <= 1
        /\ \A r \in OpenResources :
             rm.resource \in Resources /\ ~rm.opening_resource => rm.resource = r

\* what holds instead: in a run scope a resource that holds a handle is the
\* active one, or its handle was left by an earlier scope whose close raised
\* and no open of it has returned in this scope
C14_OneOpenPerScope ==
    pc # "idle" =>
        \A r \in Resources :
            handle[r] # None =>
                \/ rm.resource = r /\ ~rm.opening_resource
                \/ runs > 0 /\ ~OpenedInRun(r)

\* C15 as stated: when the body of a task that requires a resource is about
\* to be invoked, the manager holds that resource with the configuration of
\* the task, and the open of it returned.
C15_Original ==
    pc = "call" /\ required_resource(task) # None =>
        /\ rm.resource = required_resource(task)
        /\ rm.config = ConfigFor(task)
        /\ ~rm.opening_resource

\* what holds instead: the manager holds the pair of the task, but the open
\* of it may have failed for an earlier task that needed the same pair
C15_PairHeld ==
    pc = "call" /\ required_resource(task) # None =>
        /\ rm.resource = required_resource(task)
        /\ rm.config = ConfigFor(task)
        /\ rm.opening_resource =>
              /\ ~HasEv("open", Position)
              /\ \E i \in LogIndex :
                   /\ Kind(log[i]) = "open_failed"
                   /\ Subject(log[i]) = required_resource(task)
                   /\ Pos(log[i]) < Position

\* the configuration keys that a resource required by a task of the list
\* needs and that the configuration does not hold
MissingKeys(list) ==
    {c \in ConfigKeys :
        /\ c \notin BigRaysConfig
        /\ \E k \in 1..Len(list) :
             /\ required_resource(list[k]) # None
             /\ c \in required_configs(required_resource(list[k]))}

\* C16: a call of BigRays.run whose task list requires a resource with a
\* missing configuration key fails with ConfigurationError and does nothing
\* else: no resource call, no task taken, instantiated or invoked, the handles
\* and the output store as they were.
C16_PreflightNoSideEffect ==
    /\ [](outcome = "ConfigurationError" =>
            pc = "idle" /\ log = <<>> /\ values = startValues)
    /\ [][pc = "idle" /\ MissingKeys(runList') # {} =>
            /\ outcome' = "ConfigurationError"
            /\ pc' = "idle"
            /\ log' = <<>>
            /\ UNCHANGED <<rm, handle, opens, values, placeholders, cells>>
        ]_vars

\* a second call failed the pre-flight check for one of its two resources,
\* while the output store held a value of the first call
C16_Witness ==
    /\ outcome = "ConfigurationError"
    /\ runs = 2
    /\ \E t \in TaskNames : values[t] # Absent
    /\ \E j, k \in 1..Len(runList) :
         /\ required_resource(runList[j]) = "R1" /\ MissingKeys(<<runList[j]>>) = {}
         /\ MissingKeys(<<runList[k]>>) # {}

\* C17: the pre-flight check covers each distinct resource a task of the
\* list requires; the call fails with ConfigurationError if and only if a key
\* one of them requires is missing, and the error lists every missing key of
\* every one of them.
C17_PreflightComplete ==
    /\ define_required_resources(runList) =
          {r \in Resources : \E k \in 1..Len(runList) : required_resource(runList[k]) = r}
    /\ outcome = "ConfigurationError" =>
          message # {} /\ message = MissingKeys(runList)
    /\ pc # "idle" \/ RunOver => MissingKeys(runList) = {} /\ message = {}

\* a call failed the pre-flight check with two keys missing, of two resources
C17_Witness ==
    /\ outcome = "ConfigurationError"
    /\ Cardinality(message) = 2
    /\ Cardinality(define_required_resources(runList)) = 2

\* the tasks of the pop events of the run, in order
RECURSIVE Popped(_)
Popped(l) ==
    IF l = <<>> THEN <<>>
    ELSE IF Kind(Head(l)) = "pop" THEN <<Subject(Head(l))>> \o Popped(Tail(l))
    ELSE Popped(Tail(l))

\* C20: the list of a call is the registry when the call is given no task
\* and the given tasks otherwise; the tasks taken are those of the list in
\* its order, all of them when the run is over; for a task that is not in
\* the list nothing is done: no step, no failure record, no resource call
\* (every resource call is made for a task of the list, on the resource it
\* requires), and its output is what it was when the call started.
C20_TaskList ==
    pc # "idle" \/ outcome # None =>
        /\ runList = IF args = <<>> THEN TASK_REGISTER ELSE args
        /\ Popped(log) = SubSeq(runList, 1, Position)
        /\ RunOver => Popped(log) = runList
        /\ \A i \in LogIndex :
             /\ Subject(log[i]) \in TaskNames => Subject(log[i]) \in Range(runList)
             /\ Kind(log[i]) = "open" =>
                   /\ Pos(log[i]) \in 1..Len(runList)
                   /\ Subject(log[i]) = required_resource(runList[Pos(log[i])])
        /\ \A t \in TaskNames \ Range(runList) :
             /\ t \notin Range(failed_tasks)
             /\ outcome # "ConfigurationError" => values[t] = startValues[t]

\* a call that was given one task is over, the task produced its output, and
\* the registry holds other tasks, for which nothing was done
C20_Witness ==
    /\ RunOver
    /\ args # <<>>
    /\ TASK_REGISTER # <<>>
    /\ Range(TASK_REGISTER) \cap Range(runList) = {}
    /\ HasEv("output", 1)

\* a call that was given no task is over: the tasks of the registry were run
C20_RegistryRun ==
    /\ RunOver
    /\ args = <<>>
    /\ runList = TASK_REGISTER /\ Len(runList) = 2
    /\ HasEv("output", 1) /\ HasEv("output", 2)

\* the placeholder objects of the key k that user code holds
HeldOf(k) == {h[2] : h \in {x \in held : x[1] = k}}

\* C18: every read of the output of a task that has not completed returns
\* one and the same placeholder object, the one the store keeps for the task;
\* once the task completed, every placeholder obtained before reads the
\* result, and a read of the output returns the result itself.
C18_SharedPlaceholder ==
    \A k \in TaskNames :
        /\ \A r \in HeldOf(k) : r = placeholders[k]
        /\ values[k] = Absent =>
              /\ ReadOutput(k).kind = "placeholder"
              /\ placeholders[k] # NoPlaceholder =>
                    ReadOutput(k).ref = placeholders[k] /\ ReadOutput(k).cells = cells
        /\ values[k] # Absent =>
              /\ ReadOutput(k).kind = "value"
              /\ ReadOutput(k).value = values[k]
              /\ \A r \in HeldOf(k) : Placeholder_value(cells, r).value = values[k]

\* a placeholder obtained before its task completed reads the result, while
\* the placeholder of another task is still unresolved
C18_Witness ==
    \E k, l \in TaskNames :
        /\ HeldOf(k) # {} /\ values[k] = "v1"
        /\ \A r \in HeldOf(k) : Placeholder_value(cells, r).value = "v1"
        /\ HeldOf(l) # {} /\ values[l] = Absent

\* C19: reading the value of a placeholder raises if and only if the output
\* of its task has not been set; after a task returned None its placeholder
\* reads None and does not raise.
C19_UnresolvedRead ==
    \A k \in TaskNames : \A r \in HeldOf(k) :
        /\ Placeholder_value(cells, r).raised <=> values[k] = Absent
        /\ values[k] = None =>
              ~Placeholder_value(cells, r).raised /\ Placeholder_value(cells, r).value = None

\* the placeholder of a task that returned None reads None, the placeholder
\* of a task that has not run raises
C19_Witness ==
    \E k, l \in TaskNames :
        /\ HeldOf(k) # {} /\ values[k] = None
        /\ \A r \in HeldOf(k) : ~Placeholder_value(cells, r).raised
        /\ HeldOf(l) # {} /\ values[l] = Absent
        /\ \A r \in HeldOf(l) : Placeholder_value(cells, r).raised

\* C24: when the scope is left with an exception in flight and a resource is
\* active whose open returned, the resource is closed and the exception goes
\* on to the caller if the close returned False and is swallowed if it
\* returned True; when the scope is left mid-open (the open raised) or with
\* nothing active, no close is called and the exception goes on to the caller.
C24_ScopeExitPropagation ==
    [][pc = "exit" /\ exc # NoExc =>
        LET closed == \E i \in 1..Len(NewEvents) : Kind(NewEvents[i]) = "closed"
            ignored == \E i \in 1..Len(NewEvents) : Kind(NewEvents[i]) = "ignore"
        IN /\ ActiveOpened /\ closed /\ ~ignored =>
                outcome' = errs[exc].type /\ handle'[rm.resource] = None
           /\ ActiveOpened /\ closed /\ ignored =>
                outcome' = "returned" /\ handle'[rm.resource] = None
           /\ ~ActiveOpened =>
                outcome' = errs[exc].type /\ NewCloses = {} /\ ~ignored
    ]_vars

\* a run whose last task failed to open its resource left the scope mid-open:
\* no close was called and the error reached the caller
C24_Witness ==
    /\ RunOver /\ outcome = "BigRaysError"
    /\ \E i \in LogIndex : Kind(log[i]) = "open_failed" /\ Pos(log[i]) = Len(runList)
    /\ \A i \in ExitEvents : Kind(log[i]) \notin {"close", "ignore"}

\* a run left the scope with an error in flight, the close of the active
\* resource returned True and the error was swallowed
C24_Swallowed ==
    /\ RunOver /\ outcome = "returned" /\ failed_tasks # <<>>
    /\ \E i \in ExitEvents : Kind(log[i]) = "closed"
    /\ \E i \in ExitEvents : Kind(log[i]) = "ignore"

\* the events of open_resource raising: the open failed, or the close of the
\* resource that was active failed
OpenFailureKinds == {"open_failed", "close_failed", "close_refused"}

\* the resource of the task at position k could not be opened
OpenFailedAt(k) ==
    \E i \in LogIndex : Kind(log[i]) \in OpenFailureKinds /\ Pos(log[i]) = k

\* C25: when open_resource raises for a task, the task is appended to the
\* failure record and the loop goes on with the next task; the task is never
\* instantiated or invoked and no output is recorded for it; every later task
\* that is executed has run_with_exceptions, the others are skipped.
C25_OpenFailureHandled ==
    /\ [](\A k \in 1..Position :
            OpenFailedAt(k) =>
              /\ ~HasEv("instantiate", k) /\ ~HasEv("invoke", k) /\ ~HasEv("output", k)
              /\ (k < Position \/ pc \in {"loop", "unwind", "exit", "idle"}) =>
                    /\ k \in FailedPositions
                    /\ \E i \in 1..Len(failed_tasks) : failed_tasks[i] = runList[k]
              /\ \A q \in (k + 1)..Position :
                    IF run_with_exceptions(runList[q])
                    THEN HasEv("run_task", q)
                    ELSE HasEv("skip", q) /\ ~HasEv("run_task", q))
    /\ [][pc = "open_resource" /\ Len(errs') > Len(errs) =>
            /\ failed_tasks' = Append(failed_tasks, task)
            /\ pc' = "loop"
            /\ UNCHANGED <<values, placeholders, cells>>
            /\ \A i \in 1..Len(NewEvents) :
                  Kind(NewEvents[i]) \notin {"instantiate", "invoke", "output"}
       ]_vars

\* a run is over in which the first task's resource could not be opened, the
\* second task was skipped and the third, with run_with_exceptions, ran
C25_Witness ==
    /\ RunOver /\ Len(runList) = 3
    /\ HasEv("open_failed", 1) /\ failed_tasks[1] = runList[1]
    /\ HasEv("skip", 2)
    /\ HasEv("returned", 3)

\* the times the output of the task type t was set in this run
OutputSets(t) == {i \in LogIndex : Kind(log[i]) = "output" /\ Subject(log[i]) = t}

\* C26: within one run the output of a task type is set at most once,
\* whatever the task list, a list naming the same task twice included.
C26_Original ==
    \A t \in TaskNames : Cardinality(OutputSets(t)) <= 1

\* the last exception a direct call raised (None: it returned)
CalledRaised == IF called.raised = <<>> THEN None
                ELSE called.raised[Len(called.raised)]

\* the resource the error of a failed direct open names
CalledNames ==
    {e[2] : e \in {f \in Range(called.log) : f[1] = "open_failed"}}

\* resource() and close() both fail on the resource r
Closed(r) ==
    /\ BaseResource_resource(handle, r).raised = <<"RuntimeError">>
    /\ \A out \in CloseOutcomes :
          BaseResource_close(handle, r, out).raised = <<"ResourceError">>

C29_StillOpen ==
    /\ called.op = "open" /\ called.raised # <<>>
    /\ called.before # None /\ handle[called.resource] = called.before

\* C30: a close on a resource that stores nothing fails with ResourceError and
\* the close logic (_close) is not invoked; resource() on such a resource fails
\* with RuntimeError, another error; after a close that returned the resource
\* stores nothing, so a second close fails with ResourceError.
C30_CloseUnopened ==
    /\ called.op = "close" /\ called.before = None =>
          /\ called.raised = <<"ResourceError">>
          /\ \A e \in Range(called.log) : e[1] \in {"close", "close_refused"}
          /\ handle[called.resource] = None
    /\ called.op = "resource" /\ called.before = None =>
          /\ called.raised = <<"RuntimeError">>
          /\ CalledRaised # "ResourceError"
    /\ called.op = "resource" /\ called.before # None =>
          called.raised = <<>> /\ called.value = called.before
    /\ called.op = "close" /\ called.raised = <<>> =>
          /\ called.before # None
          /\ handle[called.resource] = None
          /\ Closed(called.resource)

\* a close was refused on a resource that had been opened and closed before
C30_Witness ==
    /\ called.op = "close" /\ called.before = None
    /\ called.raised = <<"ResourceError">>
    /\ opens > 0 /\ \A r \in Resources : handle[r] = None

\* a close returned
C30_Closed ==
    called.op = "close" /\ called.raised = <<>>

\* the classes a class derives from, directly or not
RECURSIVE Ancestors(_, _)
Ancestors(table, id) ==
    LET bs == ClassOf(table, id).bases
    IN bs \cup UNION {Ancestors(table, b) : b \in bs}

\* BaseTask: the first class created
BaseTaskId == TypeId(1)

\* a task base type: a task class that derives from BaseTask and from no
\* other task class
TaskBase(id) ==
    /\ ClassOf(classes, id).meta /\ id # BaseTaskId
    /\ \A a \in Ancestors(classes, id) : ClassOf(classes, a).meta => a = BaseTaskId

\* a leaf task type: a task class below a task base type
Leaf(id) ==
    /\ ClassOf(classes, id).meta
    /\ \E a \in Ancestors(classes, id) : TaskBase(a)

\* the leaf task types defined, in definition order
Leaves ==
    LET idx == {i \in 1..Len(classes) : Leaf(classes[i].id)}
    IN [k \in 1..Cardinality(idx) |-> classes[Ascending(idx)[k]].id]

\* C21: after any sequence of class statements TASK_REGISTER holds exactly
\* the leaf task types that were defined, each once, in definition order;
\* BaseTask and the task base types are not in it.
C21_Registry ==
    /\ TASK_REGISTER = Leaves
    /\ \A i \in 1..Len(TASK_REGISTER) :
          /\ TASK_REGISTER[i] # BaseTaskId
          /\ ~TaskBase(TASK_REGISTER[i])
          /\ \A j \in 1..Len(TASK_REGISTER) : TASK_REGISTER[i] = TASK_REGISTER[j] => i = j

\* two leaf types are registered, defined below a task base type that is not
C21_Witness ==
    /\ Len(classes) = 4 /\ Len(TASK_REGISTER) = 2
    /\ TaskBase(TypeId(2))
    /\ TASK_REGISTER = <<TypeId(3), TypeId(4)>>

\* the last class statement defined a class below a task base type or a leaf
DefinedLeaf ==
    \E b \in definition.bases : ClassOf(classes, b).meta /\ b # BaseTaskId

\* the attributes the direct bases of the last class statement mark as
\* required, and those of them its body leaves unset
Marked == {a \in AttrNames : \E b \in definition.bases :
                                ClassOf(classes, b).ns[a] = REQUIRED_ATTRIBUTE}
Unset == {a \in Marked : definition.ns[a] \in {Absent, REQUIRED_ATTRIBUTE}}

\* C22: a class statement of a leaf type that leaves unset an attribute its
\* base marks as required fails with TaskInterfaceError naming the type and
\* every such attribute, and the registry and the classes are as before; with
\* every such attribute bound to a value, None included, it succeeds and the
\* type is registered.
C22_InterfaceCheck ==
    /\ [](DefinedLeaf =>
            /\ definition.raised = "TaskInterfaceError" <=> Unset # {}
            /\ definition.raised = "TaskInterfaceError" =>
                  /\ definition.missing = Unset
                  /\ definition.name = TypeId(Len(classes) + 1)
                  /\ definition.name \notin Range(TASK_REGISTER)
            /\ definition.raised = None =>
                  /\ TASK_REGISTER # <<>>
                  /\ TASK_REGISTER[Len(TASK_REGISTER)] = definition.name
                  /\ classes[Len(classes)].id = definition.name)
    /\ [][definition'.raised = "TaskInterfaceError" =>
            TASK_REGISTER' = TASK_REGISTER /\ classes' = classes]_vars

\* a class statement failed for two missing attributes after a leaf type had
\* been registered
C22_Witness ==
    /\ definition.raised = "TaskInterfaceError"
    /\ definition.missing = {"x", "y"}
    /\ Len(TASK_REGISTER) = 1

\* a leaf type binding a required attribute to None was registered
C22_NoneAccepted ==
    /\ DefinedLeaf /\ definition.raised = None
    /\ \E a \in Marked : definition.ns[a] = None

\* C23: a registered type binds, in its own body, every attribute that any
\* of its ancestors marks as required to something other than the marker.
C23_Original ==
    \A i \in 1..Len(TASK_REGISTER) :
        LET id == TASK_REGISTER[i]
        IN \A a \in AttrNames :
              (\E anc \in Ancestors(classes, id) :
                    ClassOf(classes, anc).ns[a] = REQUIRED_ATTRIBUTE)
              => ClassOf(classes, id).ns[a] \notin {Absent, REQUIRED_ATTRIBUTE}

\* what the class id and its ancestors bind the attribute a to
Bindings(id, a) ==
    {ClassOf(classes, c).ns[a] : c \in {id} \cup Ancestors(classes, id)} \ {Absent}

\* no registered type is left with an attribute that an ancestor marks as
\* required and that neither the type nor any ancestor binds to anything else
C23_MarkerLeft ==
    \A i \in 1..Len(TASK_REGISTER) : \A a \in AttrNames :
        (\E anc \in Ancestors(classes, TASK_REGISTER[i]) :
              ClassOf(classes, anc).ns[a] = REQUIRED_ATTRIBUTE)
        => Bindings(TASK_REGISTER[i], a) # {REQUIRED_ATTRIBUTE}

\* the task types named by the events of the run
RunSubjects == {Subject(log[i]) : i \in LogIndex} \cap TaskTypes

\* C27: a call of a wrapper creates one new task type below base_task whose
\* body binds the keyword arguments; the run it starts has this type as its
\* whole list, so no other task, registered or not, is taken or executed; when
\* the run returns the wrapper returns the output of this type, which is what
\* its body returned in this run when the body returned.
C27_WrapperRunsOneTask ==
    /\ [](wrapped # None =>
            /\ wrapped \in WrapNames \ TaskNames
            /\ TASK_REGISTER[Len(TASK_REGISTER)] = wrapped
            /\ Cardinality({i \in 1..Len(TASK_REGISTER) : TASK_REGISTER[i] = wrapped}) = 1
            /\ classes[Len(classes)] = [id |-> wrapped, meta |-> TRUE,
                                        bases |-> {Base(wrapped)},
                                        ns |-> definition.ns, is_task |-> TRUE]
            /\ pc # "wrapper" =>
                  /\ args = <<wrapped>> /\ runList = <<wrapped>>
                  /\ RunSubjects \subseteq {wrapped}
                  /\ \A t \in TaskTypes \ {wrapped} : values[t] = startValues[t])
    /\ [][wrapped # None /\ wrapped' = None =>
            IF outcome = "returned"
            THEN /\ returned'.task = wrapped /\ returned'.raised = None
                 /\ HasEv("returned", 1) =>
                       /\ returned'.kind = "value"
                       /\ returned'.value = values[wrapped]
                       /\ returned'.value = "v" \o ToString(runs)
                 /\ ~HasEv("returned", 1) =>
                       /\ returned'.kind = "placeholder"
                       /\ returned'.value = UNSET
            ELSE returned'.raised = outcome
       ]_vars

\* a wrapper returned the output of the task it ran while other task types
\* are registered
C27_Witness ==
    /\ wrapped = None /\ returned.task \in WrapNames
    /\ returned.kind = "value" /\ returned.value = values[returned.task]
    /\ Len(TASK_REGISTER) = 3
    /\ runList = <<returned.task>>

\* C28: a call of a wrapper whose keyword arguments leave unset an attribute
\* the base task marks as required fails with ValueError, and nothing else
\* happens: no run is started, nothing is opened, no class is added and the
\* registry is as before.
C28_WrapperRejects ==
    /\ [](definition.name \in WrapNames =>
            definition.raised = "TaskInterfaceError"
              <=> \E a \in AttrNames :
                     /\ \E b \in definition.bases : declared(b)[a] = REQUIRED_ATTRIBUTE
                     /\ definition.ns[a] \in {Absent, REQUIRED_ATTRIBUTE})
    /\ [][definition'.raised = "TaskInterfaceError" /\ definition' # definition =>
            /\ returned'.raised = "ValueError"
            /\ pc = "idle" /\ pc' = "idle" /\ wrapped' = None
            /\ UNCHANGED <<runs, taken, TASK_REGISTER, classes, resourceVars,
                           outputVars, harnessVars, historyVars, log, outcome>>
       ]_vars

\* a wrapper call failed with ValueError after another wrapper call had run
\* its task
C28_Witness ==
    /\ returned.raised = "ValueError"
    /\ definition.raised = "TaskInterfaceError" /\ definition.missing = {"y"}
    /\ runs = 1 /\ Len(classes) = 1

\* C31: after an open that returned, resource() returns the handle this open
\* produced, which is not the handle of an earlier open, and a following
\* close() whose close logic does not raise succeeds; for every value the
\* open logic can return.
C31_Original ==
    called.op = "open" /\ called.raised = <<>> =>
        LET r == called.resource
            produced == {e[3] : e \in {f \in Range(called.log) : f[1] = "opened"}}
        IN /\ BaseResource_resource(handle, r).raised = <<>>
           /\ produced = {BaseResource_resource(handle, r).value}
           /\ called.before # None => handle[r] # called.before
           /\ \A out \in CloseOutcomes \ {"raise"} :
                 BaseResource_close(handle, r, out).raised = <<>>

\* a close made by a switch at position k returned
SwitchClosedAt(k) == k <= Len(runList) /\ HasEv("closed", k)

\* C32: the flag a close returns counts only at the scope exit. What
\* open_resource does, and whether it raises, is the same whether the close
\* of the switch returns True or False; a failure at or after a switch is
\* recorded, and at the end of the run the error is swallowed only when the
\* close made at the scope exit returned True.
C32_FlagOnlyAtExit ==
    /\ pc = "open_resource" =>
          \A openOut \in OpenOutcomes :
             open_resource(rm, handle, required_resource(task), resource_config(task),
                           "True", openOut, opens)
             = open_resource(rm, handle, required_resource(task), resource_config(task),
                             "False", openOut, opens)
    /\ \A k \in 1..Position :
          SwitchClosedAt(k) /\ HasEv("open_failed", k)
             /\ (k < Position \/ pc \in {"loop", "unwind", "exit", "idle"})
          => \E i \in 1..Len(failed_tasks) : failed_tasks[i] = runList[k]
    /\ RunOver /\ failed_tasks # <<>> /\ ~ExitCloseRaised =>
          (outcome = "returned" <=> ExitCloseSuppressed)

\* a run is over in which a switch closed a resource, the open that followed
\* failed, and the error reached the caller: nothing was active at the exit
C32_Witness ==
    /\ RunOver /\ outcome = "BigRaysError"
    /\ \E k \in 1..Len(runList) : SwitchClosedAt(k) /\ HasEv("open_failed", k)
    /\ ~ExitCloseSuppressed

\* the step is a call of open_resource in which the close of the active
\* resource raised
SwitchCloseFails ==
    /\ pc = "open_resource"
    /\ \E i \in 1..Len(NewEvents) :
          Kind(NewEvents[i]) \in {"close_failed", "close_refused"}

\* C33: when the close of the active resource raises during open_resource,
\* the error leaves open_resource, the requested resource is neither opened
\* nor recorded as active, the manager keeps the old resource and
\* configuration as active, and the runner records the task as failed.
C33_SwitchCloseFailure ==
    [][SwitchCloseFails =>
        /\ Len(errs') > Len(errs)
        /\ errs'[Len(errs')].type \in {"CloseError", "ResourceError"}
        /\ rm' = rm /\ ActiveOpened
        /\ opens' = opens
        /\ \A i \in 1..Len(NewEvents) : Kind(NewEvents[i]) \notin {"open", "opened"}
        /\ required_resource(task) \notin {None, rm.resource} =>
              handle'[required_resource(task)] = handle[required_resource(task)]
        /\ failed_tasks' = Append(failed_tasks, task)
        /\ pc' = "loop"
    ]_vars

\* the second task asked for another resource, the close of the first task's
\* resource raised: the manager still holds the first resource and the second
\* task is the one recorded as failed
C33_Witness ==
    /\ pc = "loop" /\ Position = 2
    /\ HasEv("close_failed", 2) /\ HasEv("returned", 1)
    /\ rm.resource = required_resource(runList[1])
    /\ required_resource(runList[2]) \notin {None, rm.resource}
    /\ failed_tasks = <<runList[2]>>

\* the tasks at the positions i and j need the same resource, with the same
\* configuration
SamePairAt(i, j) ==
    /\ required_resource(runList[i]) = required_resource(runList[j])
    /\ ConfigFor(runList[i]) = ConfigFor(runList[j])

\* C34: open_resource for a task with no required resource calls close on
\* the active resource and, when the close returns, leaves nothing active and
\* opens nothing; whenever such a task is instantiated or invoked the manager
\* holds no resource. Two tasks that need the same resource and configuration
\* and are separated by such a task cause a close at the task between them
\* and a second open.
C34_NoResourceTaskCloses ==
    /\ [](pc \in {"instantiate", "call"} /\ required_resource(task) = None =>
            rm = init_state)
    /\ [](\A k \in 2..Position :
            /\ required_resource(runList[k]) = None
            /\ required_resource(runList[k - 1]) # None
            /\ HasEv("opened", k - 1) /\ HasEv("returned", k - 1)
            /\ HasEv("instantiate", k)
            => /\ HasEv("closed", k)
               /\ \A q \in (k + 1)..Position :
                     /\ q = k + 1 /\ SamePairAt(k - 1, q)
                     /\ HasEv("instantiate", q)
                     => HasEv("open", q) /\ HasEv("opened", q))
    /\ [][pc = "open_resource" /\ required_resource(task) = None /\ ActiveOpened =>
            /\ NewCloses # {}
            /\ \A i \in 1..Len(NewEvents) : Kind(NewEvents[i]) \notin {"open", "opened"}
            /\ pc' = "instantiate" =>
                  rm' = init_state /\ handle'[rm.resource] = None
       ]_vars

\* a run of three tasks is over: the first and the third need the same
\* resource and configuration, the second needs none; the resource was
\* opened, closed at the second task and opened again
C34_Witness ==
    /\ RunOver /\ Len(runList) = 3
    /\ required_resource(runList[2]) = None
    /\ required_resource(runList[1]) # None /\ SamePairAt(1, 3)
    /\ HasEv("opened", 1) /\ HasEv("closed", 2) /\ HasEv("opened", 3)
    /\ \A k \in 1..3 : HasEv("returned", k)

\* C36: when the open of (R, C) raises inside open_resource the manager is
\* left holding (R, C) with the opening flag set. In that state a call of
\* open_resource with the same resource and configuration calls neither close
\* nor open and returns; a call for another pair calls no close, resets the
\* state and, when a resource is asked for, opens it.
C36_AfterFailedOpen ==
    /\ [][pc = "open_resource"
            /\ (\E i \in 1..Len(NewEvents) : Kind(NewEvents[i]) = "open_failed")
          => rm' = [resource |-> required_resource(task), config |-> ConfigFor(task),
                    opening_resource |-> TRUE]
        ]_vars
    /\ [][pc = "open_resource" /\ rm.opening_resource =>
            IF SamePair
            THEN /\ NewEvents = <<>>
                 /\ pc' = "instantiate"
                 /\ UNCHANGED <<rm, handle, opens, errs, failed_tasks>>
            ELSE /\ NewCloses = {}
                 /\ IF required_resource(task) = None
                    THEN /\ NewEvents = <<>> /\ rm' = init_state
                         /\ pc' = "instantiate"
                    ELSE /\ Kind(NewEvents[1]) = "open"
                         /\ Subject(NewEvents[1]) = required_resource(task)
                         /\ rm'.resource = required_resource(task)
                         /\ rm'.config = ConfigFor(task)
                         /\ rm'.opening_resource = (pc' = "loop")
        ]_vars

\* the open for the first task raised; for the second task, which needs the
\* same resource with the same configuration, nothing was closed or opened
\* and open_resource returned
C36_Witness ==
    /\ pc = "instantiate" /\ Position = 2
    /\ HasEv("open_failed", 1)
    /\ SamePairAt(1, 2)
    /\ ~HasEv("open", 2) /\ ~HasEv("close", 2)
    /\ rm.opening_resource

\* the open for the first task raised; the second task needs another
\* resource, which was opened without any close
C36_OtherPair ==
    /\ pc = "instantiate" /\ Position = 2
    /\ HasEv("open_failed", 1)
    /\ ~SamePairAt(1, 2)
    /\ HasEv("opened", 2) /\ ~HasEv("close", 2)
    /\ ~rm.opening_resource

\* the keys the resources of the run's tasks require
NeededKeys ==
    UNION {required_configs(required_resource(t)) :
              t \in {u \in Range(runList) : required_resource(u) # None}}

\* the tasks of the run that name a configuration of their own for a
\* resource they require
OwnConfigTasks ==
    {t \in Range(runList) : required_resource(t) # None /\ resource_config(t) # None}

\* C39: whether a call of BigRays.run fails with ConfigurationError, and the
\* keys it lists, depend on the default configuration only: it fails exactly
\* when a key required by a resource of the list is missing from the default
\* configuration, whatever the tasks' own resource_config holds.
C39_PreflightDefaultOnly ==
    pc # "idle" \/ outcome # None =>
        /\ message = NeededKeys \ BigRaysConfig
        /\ outcome = "ConfigurationError" <=> ~(NeededKeys \subseteq BigRaysConfig)
        /\ NeededKeys \subseteq BigRaysConfig => pc = "loop"

\* the call failed although every task that needs a resource names its own
\* configuration, which holds every key required
C39_Witness ==
    /\ outcome = "ConfigurationError"
    /\ \A t \in Range(runList) : required_resource(t) # None => t \in OwnConfigTasks
    /\ NeededKeys \subseteq taskConfig

\* the check passed although the configuration a task names for its resource
\* lacks the key the resource requires
C39_Passed ==
    /\ pc = "loop"
    /\ \E t \in OwnConfigTasks :
          ~(required_configs(required_resource(t)) \subseteq taskConfig)

\* C38: every call of a wrapper that passes the interface check appends one
\* new task type to TASK_REGISTER, so the registry ends with the types the
\* wrappers created, one per call, in the order of the calls; a call of
\* BigRays.run with no arguments that follows has all of them in its list and
\* takes every one of them.
C38_RegistryGrowsPerCall ==
    /\ [](/\ Len(TASK_REGISTER) >= Len(classes)
          /\ SubSeq(TASK_REGISTER, Len(TASK_REGISTER) - Len(classes) + 1,
                    Len(TASK_REGISTER)) = [i \in 1..Len(classes) |-> classes[i].id]
          /\ \A i, j \in 1..Len(TASK_REGISTER) :
                TASK_REGISTER[i] = TASK_REGISTER[j] => i = j)
    /\ [](args = <<>> /\ wrapped = None /\ (pc # "idle" \/ RunOver) =>
            /\ runList = TASK_REGISTER
            /\ Wrapped \subseteq Range(runList)
            /\ RunOver => \A k \in 1..Len(runList) : HasEv("pop", k))
    /\ [][wrapped = None /\ wrapped' # None =>
            /\ TASK_REGISTER' = Append(TASK_REGISTER, wrapped')
            /\ wrapped' \notin Range(TASK_REGISTER)
       ]_vars

\* a wrapper was called and ran its task; a call of BigRays.run() that
\* followed ran the task type the wrapper had created, again
C38_Witness ==
    /\ RunOver /\ args = <<>> /\ runs = 2
    /\ returned.task \in WrapNames /\ returned.kind = "value"
    /\ runList = <<returned.task>>
    /\ HasEv("returned", 1)

\* the resource the waiting run holds open with a handle, if any
HeldByOuter ==
    IF outer = <<>> THEN {}
    ELSE {r \in Resources : /\ outer[1].rm.resource = r
                            /\ ~outer[1].rm.opening_resource
                            /\ outer[1].handle[r] # None}

\* the run made a call of a wrapper in a task body, and every open of the
\* run stored a handle
MadeNestedCall ==
    /\ outer = <<>> /\ wrapped = None
    /\ \E i \in LogIndex : Kind(log[i]) = "nested"
    /\ \A i \in LogIndex : Kind(log[i]) = "opened" => Extra(log[i]) # None

\* C35 (as stated): while a run started in a task body is under way and
\* when it has returned, the resource the enclosing run holds open stores
\* the handle it stored when the body made the call (it was not opened
\* again and is still open), and no close of the enclosing run is refused
\* for an unopened resource.
C35_Original ==
    /\ \A r \in HeldByOuter : handle[r] = outer[1].handle[r]
    /\ MadeNestedCall => \A i \in LogIndex : Kind(log[i]) # "close_refused"

\* C35, first part alone: the resource the enclosing run holds open is not
\* opened again
C35_NotReopened ==
    \A r \in HeldByOuter : handle[r] \in {outer[1].handle[r], None}

\* C35, second part alone: when the run started in the body is over, the
\* resource the enclosing run holds open is open
C35_StillOpen ==
    pc = "idle" => \A r \in HeldByOuter : handle[r] # None

\* C35, third part alone: the close of the enclosing scope is not refused
C35_CloseSucceeds ==
    MadeNestedCall /\ RunOver => \A i \in LogIndex : Kind(log[i]) # "close_refused"

\* the queue q holds the last tasks of the list l, and the tasks popped in
\* the history h are the tasks of l before them
QueueOf(q, l, h) ==
    /\ Len(q) <= Len(l)
    /\ q = SubSeq(l, Len(l) - Len(q) + 1, Len(l))
    /\ Popped(h) = SubSeq(l, 1, Len(l) - Len(q))

\* C37: the task list of a run is fixed when the run starts. The queue of
\* the run is at any time the rest of that list, also while the run waits
\* for a wrapper called in a task body, and the tasks taken when the run is
\* over are those of the list; the list of a call given no task is the
\* registry as it was at the start of the call. A step that defines a task
\* type while a run is in progress appends the type to the registry and
\* leaves the list and the queue of the run as they are, and the run does
\* nothing for a task type that is in the registry but not in its list.
C37_ListFixedAtStart ==
    /\ [](/\ QueueOf(tasks, runList, log)
          /\ outer # <<>> => QueueOf(outer[1].tasks, outer[1].runList, outer[1].log)
          /\ RunOver => Popped(log) = runList
          /\ args = <<>> /\ (pc # "idle" \/ outcome # None) =>
                /\ Len(runList) <= Len(TASK_REGISTER)
                /\ runList = SubSeq(TASK_REGISTER, 1, Len(runList))
          /\ \A t \in Range(TASK_REGISTER) \ Range(runList) :
                /\ \A i \in LogIndex : Subject(log[i]) # t
                /\ t \notin Range(failed_tasks))
    /\ [][pc = "call" /\ TASK_REGISTER' # TASK_REGISTER =>
            /\ \E name \in WrapNames \ Range(runList) :
                  TASK_REGISTER' = Append(TASK_REGISTER, name)
            /\ tasks' = tasks
            /\ runList' = runList
            /\ outer' # <<>> => /\ outer'[1].tasks = tasks
                                /\ outer'[1].runList = runList
       ]_vars

\* a call of BigRays.run() is over: it ran the two tasks of the registry, the
\* body of one of them called a wrapper, whose task type is the third of
\* the registry now and was not taken by the call
C37_Witness ==
    /\ RunOver /\ outer = <<>> /\ wrapped = None
    /\ args = <<>>
    /\ runList = <<"A", "D">>
    /\ Popped(log) = runList
    /\ \E i \in LogIndex : Kind(log[i]) = "nested"
    /\ Len(TASK_REGISTER) = 3
    /\ TASK_REGISTER[3] \in WrapNames
    /\ returned.task = TASK_REGISTER[3]

====
